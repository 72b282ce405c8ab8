--------------------------- MODULE UdpClientProofs --------------------------
(***************************************************************************)
(* Proofs about UdpClient, in four invariants that rest on each other.     *)
(*                                                                         *)
(* TInv: the types, which need that an exchange waits only when it has an  *)
(* attempt left.  RInv: all that is under way for the present socket, and  *)
(* all that was received, returned or is in the device, is a value the     *)
(* device had since the dial; a new dial leaves the old datagrams behind   *)
(* because its port is new.  SInv: the mutex makes exchanges exclusive, so *)
(* while every attempt has had its good reply nothing is left over between *)
(* two exchanges, and one that begins then finds only its own datagrams,   *)
(* however often it tries.  LInv: while no attempt has failed, the device  *)
(* holds the last write reported or the one under way.                     *)
(***************************************************************************)
EXTENDS UdpClient, TLAPS

\* NoCall, and what a goroutine's call becomes in a step, are calls.
LEMMA CallFields ==
    /\ NoValues \in Values
    /\ NoCall \in Call
    /\ \A c \in Call :
         /\ \A a \in {"idle", "lock", "send", "recv", "backoff"} :
              [c EXCEPT !.at = a] \in Call
         /\ \A b \in BOOLEAN : [c EXCEPT !.at = "send", !.clean = b] \in Call
         /\ \A t \in 0 .. Retries :
              [c EXCEPT !.at = "send", !.try = t] \in Call
         /\ [c EXCEPT !.done = TRUE] \in Call
    /\ \A v \in Values : [NoCall EXCEPT !.got = v] \in Call
    /\ \A n \in Nat, r \in Requests :
         [NoCall EXCEPT !.at = "lock", !.x = n, !.is = r.is, !.ids = r.ids]
           \in Call
<1>1. NoValues \in Values
  BY DEF NoValues, Values
<1>2. NoCall \in Call
  BY <1>1, UdpClientAssumption DEF NoCall, Call
<1>3. ASSUME NEW c \in Call
      PROVE  /\ \A a \in {"idle", "lock", "send", "recv", "backoff"} :
                   [c EXCEPT !.at = a] \in Call
             /\ \A b \in BOOLEAN :
                   [c EXCEPT !.at = "send", !.clean = b] \in Call
             /\ \A t \in 0 .. Retries :
                   [c EXCEPT !.at = "send", !.try = t] \in Call
             /\ [c EXCEPT !.done = TRUE] \in Call
  BY DEF Call
<1>4. \A v \in Values : [NoCall EXCEPT !.got = v] \in Call
  BY <1>2 DEF Call
<1>5. ASSUME NEW n \in Nat, NEW r \in Requests
      PROVE  [NoCall EXCEPT !.at = "lock", !.x = n, !.is = r.is, !.ids = r.ids]
               \in Call
  <2>1. r.is \in {"read", "write"} /\ r.ids \in SUBSET Params
    BY UdpClientAssumption
  <2> QED
    BY <1>2, <2>1 DEF Call
<1> QED
  BY <1>1, <1>2, <1>3, <1>4, <1>5

\* The fields of a call that begins and of one that returns.
LEMMA NewCalls ==
    /\ NoCall.at = "idle" /\ NoCall.got = NoValues
    /\ \A v : LET c == [NoCall EXCEPT !.got = v] IN c.at = "idle" /\ c.got = v
    /\ \A n, i, ids :
         LET c == [NoCall EXCEPT !.at = "lock", !.x = n, !.is = i, !.ids = ids]
         IN  c.at = "lock" /\ c.got = NoValues
<1>1. NoCall.at = "idle" /\ NoCall.got = NoValues
  BY DEF NoCall
<1>2. ASSUME NEW v
      PROVE  LET c == [NoCall EXCEPT !.got = v] IN c.at = "idle" /\ c.got = v
  BY DEF NoCall
<1>3. ASSUME NEW n, NEW i, NEW ids
      PROVE  LET c == [NoCall EXCEPT !.at = "lock", !.x = n, !.is = i,
                                     !.ids = ids]
             IN  c.at = "lock" /\ c.got = NoValues
  BY DEF NoCall
<1> QED
  BY <1>1, <1>2, <1>3

\* Taking the first datagram from the socket.
LEMMA Head0 ==
    ASSUME NEW S, NEW s \in Seq(S), s # <<>>
    PROVE  /\ Head(s) \in S /\ Head(s) = s[1] /\ 1 \in 1 .. Len(s)
           /\ Tail(s) \in Seq(S)
           /\ Len(Tail(s)) = Len(s) - 1
           /\ \A i \in 1 .. Len(Tail(s)) :
                 i + 1 \in 1 .. Len(s) /\ Tail(s)[i] = s[i + 1]
  OBVIOUS

\* AttemptFails leaves calls, and the mutex free or as it was.
LEMMA AttemptFailsType ==
    ASSUME TypeOK, NEW k \in Callers, AttemptFails(k)
    PROVE  /\ call' \in [Callers -> Call]
           /\ mu' \in Callers \cup {None}
<1>1. CASE Fail(k)
  BY <1>1, CallFields DEF Fail, TypeOK
<1>2. CASE /\ call' = [call EXCEPT ![k].at = "backoff"]
           /\ UNCHANGED mu
  <2>1. [call[k] EXCEPT !.at = "backoff"] \in Call
    BY CallFields DEF TypeOK
  <2>2. call' = [call EXCEPT ![k] = [call[k] EXCEPT !.at = "backoff"]]
    BY <1>2
  <2> QED
    BY <1>2, <2>1, <2>2 DEF TypeOK
<1> QED
  BY <1>1, <1>2 DEF AttemptFails

\* Only an exchange with an attempt left waits for it.
Attempts == \A k \in Callers : call[k].at = "backoff" => call[k].try < Retries

TInv == TypeOK /\ Attempts

\* A device's reply is a datagram.
LEMMA AnswerType ==
    ASSUME TypeOK, NEW d \in net, NEW is \in {"reply", "auth", "bad"},
           NEW vals \in Values, Answer(d, is, vals)
    PROVE  net' \subseteq Datagram
  BY DEF Answer, TypeOK, Datagram

\* What sendRecvLocked sends is a datagram.
LEMMA RequestType ==
    ASSUME NEW i \in {"read", "write"}, NEW n \in Nat, NEW x \in Nat,
           NEW t \in Nat, NEW ids \in SUBSET Params
    PROVE  [is |-> i, port |-> n, x |-> x, try |-> t, ids |-> ids,
            vals |-> NoValues] \in Datagram
  BY CallFields DEF Datagram

\* The values of a reply are values of parameters.
LEMMA OnlyType ==
    ASSUME NEW ids, NEW f \in [Params -> Nat]
    PROVE  Only(ids, f) \in Values
  BY DEF Only, Values

\* Every step keeps the types.
LEMMA TypeStep == TInv /\ [Next]_vars => TypeOK'
<1> SUFFICES ASSUME TypeOK, Attempts, [Next]_vars PROVE TypeOK'
  BY DEF TInv
<1>0. <<>> \in Seq(Datagram)
  OBVIOUS
<1>1. CASE Dial
  <2>1. call' \in [Callers -> Call] /\ port' \in Nat
    <3>1. NoCall \in Call
      BY CallFields
    <3> QED
      BY <1>1, <3>1 DEF Dial, TypeOK
  <2>2. held' \in [Params -> SUBSET Nat]
    BY <1>1 DEF Dial, TypeOK
  <2> QED
    BY <1>0, <1>1, <2>1, <2>2 DEF Dial, TypeOK
<1>2. CASE Close
  BY <1>0, <1>2 DEF Close, TypeOK
<1>3. ASSUME NEW p \in Params, Drift(p) PROVE TypeOK'
  BY <1>3, UdpClientAssumption DEF Drift, Spend, Own, TypeOK
<1>4. ASSUME NEW k \in Callers, Lock(k) PROVE TypeOK'
  <2>1. [call[k] EXCEPT !.at = "send", !.clean = port \notin stray] \in Call
    BY CallFields DEF TypeOK
  <2>2. call' = [call EXCEPT ![k] = [call[k] EXCEPT !.at = "send",
                                          !.clean = port \notin stray]]
    BY <1>4 DEF Lock
  <2>3. call' \in [Callers -> Call]
    BY <2>1, <2>2 DEF TypeOK
  <2> QED
    BY <1>4, <2>3 DEF Lock, TypeOK
<1>5. ASSUME NEW k \in Callers, Send(k) PROVE TypeOK'
  <2>1. [call[k] EXCEPT !.at = "recv"] \in Call /\ call[k] \in Call
    BY CallFields DEF TypeOK
  <2>2. call' = [call EXCEPT ![k] = [call[k] EXCEPT !.at = "recv"]]
    BY <1>5 DEF Send
  <2>3. call' \in [Callers -> Call]
    BY <2>1, <2>2 DEF TypeOK
  <2>4. Request(k) \in Datagram
    <3>1. /\ call[k].is \in {"read", "write"} /\ call[k].x \in Nat
          /\ call[k].try \in Nat /\ call[k].ids \in SUBSET Params
          /\ port \in Nat
      BY <2>1, UdpClientAssumption DEF Call, TypeOK
    <3> QED
      BY <3>1, RequestType DEF Request
  <2> QED
    BY <1>5, <2>3, <2>4 DEF Send, TypeOK
<1>6. ASSUME NEW k \in Callers, SendFails(k) PROVE TypeOK'
  BY <1>6, AttemptFailsType DEF SendFails, TypeOK
<1>7. ASSUME NEW k \in Callers, Accept(k) PROVE TypeOK'
  <2>1. inbox' \in Seq(Datagram) /\ Head(inbox) \in Datagram
    BY <1>7, Head0 DEF Accept, TypeOK
  <2>2. Head(inbox).vals \in Values
    BY <2>1 DEF Datagram
  <2>3. call' \in [Callers -> Call] /\ mu' = None
    BY <1>7, <2>2, CallFields DEF Accept, TypeOK
  <2>4. call[k].x \in Nat
    BY DEF TypeOK, Call
  <2>5. acked' \subseteq Nat /\ sure' \subseteq acked' /\ last' \in [Params -> Nat]
    BY <1>7, <2>4 DEF Accept, TypeOK
  <2> QED
    BY <1>7, <2>1, <2>3, <2>5 DEF Accept, TypeOK
<1>8. ASSUME NEW k \in Callers, Reject(k) PROVE TypeOK'
  <2>1. inbox' \in Seq(Datagram) /\ Head(inbox) \in Datagram
    BY <1>8, Head0 DEF Reject, TypeOK
  <2>2. call' \in [Callers -> Call] /\ mu' \in Callers \cup {None}
    BY <1>8, AttemptFailsType, CallFields DEF Reject, Fail, TypeOK
  <2> QED
    BY <1>8, <2>1, <2>2 DEF Reject, TypeOK
<1>9. ASSUME NEW k \in Callers, TimesOut(k) PROVE TypeOK'
  BY <1>9, AttemptFailsType DEF TimesOut, TypeOK
<1>10. ASSUME NEW k \in Callers, Backoff(k) PROVE TypeOK'
  <2>1. call' \in [Callers -> Call] /\ mu' \in Callers \cup {None}
    <3>1. CASE Fail(k)
      BY <3>1, CallFields DEF Fail, TypeOK
    <3>2. CASE /\ call' = [call EXCEPT ![k].at = "send", ![k].try = @ + 1]
               /\ UNCHANGED mu
      <4>1. call[k].try + 1 \in 0 .. Retries
        BY <1>10, UdpClientAssumption DEF Backoff, Attempts, TypeOK, Call
      <4>2. [call[k] EXCEPT !.at = "send", !.try = call[k].try + 1] \in Call
        BY <4>1, CallFields DEF TypeOK
      <4>3. call' = [call EXCEPT ![k] =
                       [call[k] EXCEPT !.at = "send",
                                       !.try = call[k].try + 1]]
        BY <3>2, Zenon
      <4> QED
        BY <3>2, <4>2, <4>3 DEF TypeOK
    <3> QED
      BY <1>10, <3>1, <3>2 DEF Backoff
  <2> QED
    BY <1>10, <2>1 DEF Backoff, TypeOK
<1>11. ASSUME NEW k \in Callers, ContextEnds(k) PROVE TypeOK'
  <2>1. call' = [call EXCEPT ![k] = [call[k] EXCEPT !.done = TRUE]]
    BY <1>11 DEF ContextEnds
  <2>2. call' \in [Callers -> Call]
    BY <2>1, CallFields DEF TypeOK
  <2> QED
    BY <1>11, <2>2 DEF ContextEnds, Spend, TypeOK
<1>12. ASSUME NEW k \in Callers, Begin(k) PROVE TypeOK'
  <2>1. PICK r \in Requests :
           call' = [call EXCEPT ![k] = [NoCall EXCEPT !.at = "lock",
                      !.x = count + 1, !.is = r.is, !.ids = r.ids]]
    BY <1>12 DEF Begin
  <2>2. count + 1 \in Nat
    BY DEF TypeOK
  <2>3. call' \in [Callers -> Call]
    BY <2>1, <2>2, CallFields DEF TypeOK
  <2> QED
    BY <1>12, <2>2, <2>3 DEF Begin, TypeOK
<1>13. ASSUME NEW d \in net, HandleRead(d) PROVE TypeOK'
  <2>1. net' \subseteq Datagram
    BY <1>13, AnswerType, OnlyType DEF HandleRead, TypeOK
  <2> QED
    BY <1>13, <2>1 DEF HandleRead, TypeOK
<1>14. ASSUME NEW d \in net, HandleWrite(d) PROVE TypeOK'
  <2>1. dev' \in [Params -> Nat] /\ d.x \in Nat
    BY <1>14 DEF HandleWrite, TypeOK, Datagram
  <2>2. net' \subseteq Datagram
    <3>1. /\ net \subseteq Datagram /\ d \in Datagram
          /\ Answer(d, "reply", Only(d.ids, dev'))
      BY <1>14 DEF HandleWrite, TypeOK
    <3>2. Only(d.ids, dev') \in Values
      BY <2>1, OnlyType
    <3> QED
      BY <3>1, <3>2, AnswerType
  <2>3. /\ held' \in [Params -> SUBSET Nat]
        /\ applied' \subseteq Nat
    BY <1>14, <2>1 DEF HandleWrite, TypeOK
  <2>4. UNCHANGED <<port, open, inbox, mu, call, count, acked, sure, last,
                    stray, budget>>
    BY <1>14 DEF HandleWrite
  <2> QED
    BY <2>1, <2>2, <2>3, <2>4 DEF TypeOK
<1>15. ASSUME NEW d \in net, Refuse(d) PROVE TypeOK'
  <2>1. net' \subseteq Datagram
    BY <1>15, AnswerType, CallFields DEF Refuse
  <2> QED
    BY <1>15, <2>1 DEF Refuse, Spend, TypeOK
<1>16. ASSUME NEW d \in net, Spoil(d) PROVE TypeOK'
  <2>1. net' \subseteq Datagram
    BY <1>16, AnswerType, CallFields DEF Spoil
  <2> QED
    BY <1>16, <2>1 DEF Spoil, Spend, TypeOK
<1>17. ASSUME NEW d \in net, Arrive(d) PROVE TypeOK'
  BY <1>17 DEF Arrive, TypeOK
<1>18. CASE UNCHANGED vars
  BY <1>18 DEF vars, TypeOK
<1> QED
  BY <1>1, <1>2, <1>3, <1>4, <1>5, <1>6, <1>7, <1>8, <1>9, <1>10, <1>11,
     <1>12, <1>13, <1>14, <1>15, <1>16, <1>17, <1>18 DEF Next, CallStep

\* The loop of sendRecvLocked waits only before an attempt it may make.
LEMMA AttemptFailsAttempts ==
    ASSUME TInv, NEW k \in Callers, AttemptFails(k)
    PROVE  Attempts'
<1>1. CASE Fail(k)
  BY <1>1 DEF Fail, NoCall, Attempts, TInv, TypeOK
<1>2. CASE /\ ~(call[k].done \/ call[k].try = Retries)
           /\ call' = [call EXCEPT ![k].at = "backoff"]
  <2>1. call[k].try \in 0 .. Retries /\ Retries \in Nat /\ call[k].try # Retries
    BY <1>2, UdpClientAssumption DEF TInv, TypeOK, Call
  <2>2. /\ \A j \in Callers \ {k} : call'[j] = call[j]
        /\ call'[k].try = call[k].try
    BY <1>2 DEF TInv, TypeOK, Call
  <2> QED
    BY <2>1, <2>2 DEF Attempts, TInv
<1> QED
  BY <1>1, <1>2 DEF AttemptFails

\* A step that moves no call to "backoff" and changes no count of attempts.
LEMMA AttemptsKept ==
    ASSUME TInv,
           \A j \in Callers : \/ call'[j].at # "backoff"
                              \/ call'[j] = call[j]
                              \/ /\ call'[j].at = call[j].at
                                 /\ call'[j].try = call[j].try
    PROVE  Attempts'
  BY DEF TInv, Attempts

\* Every step keeps the bound on attempts.
LEMMA AttemptsStep == TInv /\ [Next]_vars => Attempts'
<1> SUFFICES ASSUME TInv, [Next]_vars PROVE Attempts'
  OBVIOUS
<1>0. call \in [Callers -> Call]
  BY DEF TInv, TypeOK
<1>idle. NoCall.at = "idle"
  BY DEF NoCall
<1>1. CASE Dial
  BY <1>1, <1>idle, AttemptsKept DEF Dial
<1>2. CASE UNCHANGED call
  BY <1>2, AttemptsKept
<1>3. ASSUME NEW k \in Callers, Begin(k) PROVE Attempts'
  <2>1. PICK r \in Requests :
           call' = [call EXCEPT ![k] = [NoCall EXCEPT !.at = "lock",
                      !.x = count + 1, !.is = r.is, !.ids = r.ids]]
    BY <1>3 DEF Begin
  <2> DEFINE c == [NoCall EXCEPT !.at = "lock", !.x = count + 1, !.is = r.is,
                                 !.ids = r.ids]
  <2>2. c.at = "lock"
    BY NewCalls
  <2>3. call' = [call EXCEPT ![k] = c]
    BY <2>1
  <2> HIDE DEF c
  <2> QED
    BY <2>2, <2>3, <1>0, AttemptsKept
<1>4. ASSUME NEW k \in Callers, Lock(k) \/ Send(k) PROVE Attempts'
  BY <1>4, <1>0, AttemptsKept DEF Lock, Send, Call
<1>5. ASSUME NEW k \in Callers, Accept(k) PROVE Attempts'
  <2> DEFINE c == [NoCall EXCEPT !.got = Head(inbox).vals]
  <2>1. call' = [call EXCEPT ![k] = c]
    BY <1>5 DEF Accept
  <2>2. c.at = "idle"
    BY NewCalls
  <2> HIDE DEF c
  <2> QED
    BY <2>1, <2>2, <1>0, AttemptsKept
<1>6. ASSUME NEW k \in Callers, Fail(k) PROVE Attempts'
  BY <1>6, <1>0, AttemptsKept DEF Fail, NoCall
<1>7. ASSUME NEW k \in Callers, SendFails(k) \/ Reject(k) \/ TimesOut(k)
      PROVE  Attempts'
  BY <1>7, <1>6, AttemptFailsAttempts DEF SendFails, Reject, TimesOut
<1>8. ASSUME NEW k \in Callers, Backoff(k) PROVE Attempts'
  <2>1. CASE Fail(k)
    BY <2>1, <1>6
  <2>2. CASE call' = [call EXCEPT ![k].at = "send", ![k].try = @ + 1]
    BY <2>2, <1>0, AttemptsKept DEF Call
  <2> QED
    BY <1>8, <2>1, <2>2 DEF Backoff
<1>9. ASSUME NEW k \in Callers, ContextEnds(k) PROVE Attempts'
  BY <1>9, <1>0, AttemptsKept DEF ContextEnds, Call
<1>10. ASSUME NEW d \in net,
              \/ HandleRead(d) \/ HandleWrite(d) \/ Refuse(d) \/ Spoil(d)
              \/ Arrive(d)
       PROVE  Attempts'
  BY <1>10, <1>2 DEF HandleRead, HandleWrite, Refuse, Spoil, Arrive
<1> QED
  BY <1>1, <1>2, <1>3, <1>4, <1>5, <1>7, <1>8, <1>9, <1>10
     DEF Next, CallStep, Close, Drift, vars

\* The client starts with the types right.
LEMMA TypeInit == Init => TInv
<1> SUFFICES ASSUME Init PROVE TInv
  OBVIOUS
<1>0. <<>> \in Seq(Datagram)
  OBVIOUS
<1>1. NoCall \in Call /\ NoCall.at = "idle"
  BY CallFields, NewCalls
<1>2. call \in [Callers -> Call] /\ Attempts
  BY <1>1 DEF Init, Attempts
<1>3. /\ dev \in [Params -> Nat] /\ last \in [Params -> Nat]
      /\ held \in [Params -> SUBSET Nat]
  BY DEF Init
<1>4. /\ net = {} /\ port = 0 /\ open = FALSE /\ inbox = <<>> /\ mu = None
      /\ count = 0 /\ applied = {} /\ acked = {} /\ sure = {} /\ stray = {}
      /\ budget \in Nat
  BY UdpClientAssumption DEF Init
<1> QED
  BY <1>0, <1>2, <1>3, <1>4 DEF TInv, TypeOK

\* Type correctness of the client, the network and the device; that no exchange
\* makes more than Retries + 1 attempts is part of it.
THEOREM ClientTypeCorrect == Spec => []TypeOK
<1>1. TInv /\ [Next]_vars => TInv'
  BY TypeStep, AttemptsStep DEF TInv
<1>2. TInv => TypeOK
  BY DEF TInv
<1> QED
  BY <1>1, <1>2, TypeInit, PTL DEF Spec

-----------------------------------------------------------------------------
(* What calls return is recent.                                            *)

\* Values the device had since the dial, when h holds those.
Recent(v, h) == \A p \in Params : v[p] # None => v[p] \in h[p]

\* ... of what is under way for the present port, ...
RecentNet(n, po, h) ==
    \A d \in n : d.port <= po /\ (d.port = po => Recent(d.vals, h))
\* ... of what the socket has received, ...
RecentInbox(s, h) == \A i \in 1 .. Len(s) : Recent(s[i].vals, h)
\* ... and of what calls have returned.
RecentCalls(c, h) == \A k \in Callers : Recent(c[k].got, h)

\* The inductive invariant of ReadsAreRecent.
RInv == /\ TInv
        /\ Recent(dev, held)
        /\ RecentNet(net, port, held)
        /\ RecentInbox(inbox, held)
        /\ RecentCalls(call, held)

\* A reply without values is recent.
LEMMA NothingIsRecent == \A h : Recent(NoValues, h)
  BY DEF Recent, NoValues

\* What was recent stays so while the client is not dialled again.
LEMMA RecentStays ==
    ASSUME \A p \in Params : held[p] \subseteq held'[p], UNCHANGED port
    PROVE  /\ Recent(dev, held) => Recent(dev, held')
           /\ RecentNet(net, port, held) => RecentNet(net, port', held')
           /\ RecentInbox(inbox, held) => RecentInbox(inbox, held')
           /\ RecentCalls(call, held) => RecentCalls(call, held')
<1>1. \A v : Recent(v, held) => Recent(v, held')
  BY DEF Recent
<1> QED
  BY <1>1 DEF RecentNet, RecentInbox, RecentCalls

\* An answer with recent values leaves the network recent.
LEMMA AnswerRecent ==
    ASSUME TypeOK, NEW h, RecentNet(net, port, h), NEW d \in net, NEW is,
           NEW vals, Answer(d, is, vals), Recent(vals, h)
    PROVE  RecentNet(net', port, h)
<1> DEFINE r == [d EXCEPT !.is = is, !.vals = vals]
<1>1. r.port = d.port /\ r.vals = vals
  BY DEF TypeOK, Datagram
<1>2. net' = (net \ {d}) \cup {r}
  BY DEF Answer
<1> HIDE DEF r
<1> QED
  BY <1>1, <1>2 DEF RecentNet

\* The device's reply to a read or a write is recent.
LEMMA OnlyRecent ==
    ASSUME NEW ids, NEW f, NEW h, Recent(f, h)
    PROVE  Recent(Only(ids, f), h)
  BY DEF Only, Recent

\* A call that moves on returns nothing new.
LEMMA CallsMove ==
    ASSUME NEW h, RecentCalls(call, h),
           \A j \in Callers : call'[j].got \in {call[j].got, NoValues}
    PROVE  RecentCalls(call', h)
  BY NothingIsRecent DEF RecentCalls

\* An attempt that fails returns nothing new.
LEMMA FailMoves ==
    ASSUME TypeOK, NEW k \in Callers, Fail(k) \/ AttemptFails(k)
    PROVE  \A j \in Callers : call'[j].got \in {call[j].got, NoValues}
<1>1. CASE call' = [call EXCEPT ![k] = NoCall]
  BY <1>1, NewCalls DEF TypeOK
<1>2. CASE call' = [call EXCEPT ![k].at = "backoff"]
  BY <1>2 DEF TypeOK, Call
<1> QED
  BY <1>1, <1>2 DEF Fail, AttemptFails

\* The socket loses its first datagram.
LEMMA TailRecent ==
    ASSUME TypeOK, inbox # <<>>, NEW h, RecentInbox(inbox, h)
    PROVE  RecentInbox(Tail(inbox), h) /\ Recent(Head(inbox).vals, h)
  BY Head0 DEF TypeOK, RecentInbox

\* Every step keeps values recent.
LEMMA RecentStep == RInv /\ [Next]_vars => RInv'
<1> SUFFICES ASSUME RInv, [Next]_vars PROVE RInv'
  OBVIOUS
<1>type. TInv' /\ TypeOK
  BY TypeStep, AttemptsStep DEF RInv, TInv
<1> DEFINE Rest == /\ Recent(dev, held) /\ RecentNet(net, port, held)
                   /\ RecentInbox(inbox, held) /\ RecentCalls(call, held)
<1>recent. Rest
  BY DEF RInv
<1>1. CASE Dial
  <2>1. Recent(dev', held')
    BY <1>1 DEF Dial, Recent, TypeOK
  <2>2. RecentNet(net', port', held')
    <3>1. \A d \in net : d.port \in Nat /\ d.port <= port
      BY <1>recent, <1>type DEF RecentNet, TypeOK, Datagram
    <3> QED
      BY <1>1, <1>type, <3>1 DEF Dial, RecentNet, TypeOK
  <2>3. RecentInbox(inbox', held')
    BY <1>1 DEF Dial, RecentInbox
  <2>4. RecentCalls(call', held')
    BY <1>1, NewCalls, NothingIsRecent DEF Dial, RecentCalls
  <2> QED
    BY <1>type, <2>1, <2>2, <2>3, <2>4 DEF RInv
<1>2. CASE Close
  <2>1. RecentInbox(inbox', held)
    BY <1>2 DEF Close, RecentInbox
  <2> QED
    BY <1>type, <1>recent, <1>2, <2>1 DEF Close, RInv
<1>3. ASSUME NEW p \in Params, Drift(p) PROVE RInv'
  <2>1. /\ \A q \in Params : held[q] \subseteq held'[q]
        /\ Recent(dev', held')
    BY <1>3, <1>recent, <1>type DEF Drift, Recent, TypeOK
  <2> QED
    BY <1>type, <1>recent, <1>3, <2>1, RecentStays DEF Drift, RInv
<1>4. ASSUME NEW k \in Callers, Lock(k) \/ ContextEnds(k) \/ Begin(k)
      PROVE  RInv'
  <2>1. \A j \in Callers : call'[j].got \in {call[j].got, NoValues}
    <3>0. CASE Lock(k)
      <4> DEFINE b == port \notin stray
      <4>1. call' = [call EXCEPT ![k] =
                       [call[k] EXCEPT !.at = "send", !.clean = b]]
        BY <3>0 DEF Lock
      <4> HIDE DEF b
      <4>2. [call[k] EXCEPT !.at = "send", !.clean = b].got = call[k].got
        BY <1>type DEF TypeOK, Call
      <4> QED
        BY <1>type, <4>1, <4>2 DEF TypeOK
    <3>1. CASE ContextEnds(k)
      BY <1>type, <3>1 DEF ContextEnds, TypeOK, Call
    <3>2. CASE Begin(k)
      <4>1. PICK r \in Requests :
               call' = [call EXCEPT ![k] = [NoCall EXCEPT !.at = "lock",
                          !.x = count + 1, !.is = r.is, !.ids = r.ids]]
        BY <3>2 DEF Begin
      <4> DEFINE c == [NoCall EXCEPT !.at = "lock", !.x = count + 1,
                                     !.is = r.is, !.ids = r.ids]
      <4>2. c.got = NoValues
        BY NewCalls
      <4>3. call' = [call EXCEPT ![k] = c]
        BY <4>1
      <4> HIDE DEF c
      <4> QED
        BY <1>type, <4>2, <4>3 DEF TypeOK
    <3> QED
      BY <1>4, <3>0, <3>1, <3>2
  <2>2. UNCHANGED <<dev, net, port, inbox, held>>
    BY <1>4 DEF Lock, ContextEnds, Begin
  <2> QED
    BY <1>type, <1>recent, <2>1, <2>2, CallsMove DEF RInv
<1>5. ASSUME NEW k \in Callers, Send(k) PROVE RInv'
  <2>1. \A j \in Callers : call'[j].got \in {call[j].got, NoValues}
    BY <1>type, <1>5 DEF Send, TypeOK, Call
  <2>2. RecentNet(net', port, held)
    <3>1. Request(k).port = port /\ Request(k).vals = NoValues /\ port \in Nat
      BY <1>type DEF Request, TypeOK
    <3> QED
      BY <1>5, <1>recent, <3>1, NothingIsRecent DEF Send, RecentNet
  <2> QED
    BY <1>type, <1>recent, <1>5, <2>1, <2>2, CallsMove DEF Send, RInv
<1>6. ASSUME NEW k \in Callers, SendFails(k) \/ TimesOut(k) \/ Backoff(k)
      PROVE  RInv'
  <2>1. \A j \in Callers : call'[j].got \in {call[j].got, NoValues}
    <3>1. CASE call' = [call EXCEPT ![k].at = "send", ![k].try = @ + 1]
      BY <1>type, <3>1 DEF TypeOK, Call
    <3> QED
      BY <1>type, <1>6, <3>1, FailMoves DEF SendFails, TimesOut, Backoff
  <2>2. UNCHANGED <<dev, net, port, inbox, held>>
    BY <1>6 DEF SendFails, TimesOut, Backoff
  <2> QED
    BY <1>type, <1>recent, <2>1, <2>2, CallsMove DEF RInv
<1>7. ASSUME NEW k \in Callers, Reject(k) PROVE RInv'
  <2>1. \A j \in Callers : call'[j].got \in {call[j].got, NoValues}
    BY <1>type, <1>7, FailMoves DEF Reject
  <2>2. inbox' = Tail(inbox) /\ inbox # <<>> /\ UNCHANGED <<dev, net, port, held>>
    BY <1>7 DEF Reject
  <2> QED
    BY <1>type, <1>recent, <2>1, <2>2, CallsMove, TailRecent DEF RInv
<1>8. ASSUME NEW k \in Callers, Accept(k) PROVE RInv'
  <2>1. /\ call' = [call EXCEPT ![k] = [NoCall EXCEPT !.got = Head(inbox).vals]]
        /\ inbox' = Tail(inbox) /\ inbox # <<>>
        /\ UNCHANGED <<dev, net, port, held>>
    BY <1>8 DEF Accept
  <2>2. RecentInbox(inbox', held) /\ Recent(Head(inbox).vals, held)
    BY <1>type, <1>recent, <2>1, TailRecent
  <2>3. /\ call'[k].got = Head(inbox).vals
        /\ \A j \in Callers \ {k} : call'[j] = call[j]
    BY <1>type, <2>1, NewCalls DEF TypeOK
  <2>4. RecentCalls(call', held)
    BY <1>recent, <2>2, <2>3 DEF RecentCalls
  <2> QED
    BY <1>type, <1>recent, <2>1, <2>2, <2>4 DEF RInv
<1>9. ASSUME NEW d \in net, HandleRead(d) PROVE RInv'
  <2>1. RecentNet(net', port, held)
    BY <1>type, <1>recent, <1>9, AnswerRecent, OnlyRecent DEF HandleRead
  <2> QED
    BY <1>type, <1>recent, <1>9, <2>1 DEF HandleRead, RInv
<1>10. ASSUME NEW d \in net, HandleWrite(d) PROVE RInv'
  <2>1. /\ \A q \in Params : held[q] \subseteq held'[q]
        /\ Recent(dev', held')
    BY <1>10, <1>type DEF HandleWrite, Recent, TypeOK
  <2>2. UNCHANGED <<port, inbox, call>>
    BY <1>10 DEF HandleWrite
  <2>3. RecentNet(net, port, held')
    BY <1>recent, <2>1, <2>2, RecentStays
  <2>4. RecentNet(net', port, held')
    BY <1>type, <1>10, <2>1, <2>3, AnswerRecent, OnlyRecent DEF HandleWrite
  <2> QED
    BY <1>type, <1>recent, <2>1, <2>2, <2>4, RecentStays DEF RInv
<1>11. ASSUME NEW d \in net, Refuse(d) \/ Spoil(d) PROVE RInv'
  <2>1. RecentNet(net', port, held)
    BY <1>type, <1>recent, <1>11, AnswerRecent, NothingIsRecent DEF Refuse, Spoil
  <2> QED
    BY <1>type, <1>recent, <1>11, <2>1 DEF Refuse, Spoil, RInv
<1>12. ASSUME NEW d \in net, Arrive(d) PROVE RInv'
  <2>1. RecentNet(net', port, held)
    BY <1>recent, <1>12 DEF Arrive, RecentNet
  <2>2. RecentInbox(inbox', held)
    <3>1. CASE UNCHANGED inbox
      BY <1>recent, <3>1
    <3>2. CASE d.port = port /\ inbox' = Append(inbox, d)
      <4>1. Recent(d.vals, held)
        BY <1>recent, <3>2 DEF RecentNet
      <4>2. d \in Datagram /\ inbox \in Seq(Datagram)
        BY <1>type DEF TypeOK
      <4>3. /\ Len(inbox') = Len(inbox) + 1 /\ Len(inbox) \in Nat
            /\ inbox'[Len(inbox) + 1] = d
            /\ \A i \in 1 .. Len(inbox) : inbox'[i] = inbox[i]
        BY <3>2, <4>2
      <4> QED
        BY <1>recent, <4>1, <4>3 DEF RecentInbox
    <3> QED
      BY <1>12, <3>1, <3>2 DEF Arrive
  <2> QED
    BY <1>type, <1>recent, <1>12, <2>1, <2>2 DEF Arrive, RInv
<1>13. CASE UNCHANGED vars
  BY <1>type, <1>recent, <1>13 DEF vars, RInv
<1> QED
  BY <1>1, <1>2, <1>3, <1>4, <1>5, <1>6, <1>7, <1>8, <1>9, <1>10, <1>11,
     <1>12, <1>13 DEF Next, CallStep

\* Nothing is under way when the daemon starts.
LEMMA RecentInit == Init => RInv
<1> SUFFICES ASSUME Init PROVE RInv
  OBVIOUS
<1>1. RecentCalls(call, held)
  BY NewCalls, NothingIsRecent DEF Init, RecentCalls
<1>2. Recent(dev, held)
  BY DEF Init, Recent
<1>3. RecentNet(net, port, held) /\ RecentInbox(inbox, held)
  BY DEF Init, RecentNet, RecentInbox
<1> QED
  BY <1>1, <1>2, <1>3, TypeInit DEF RInv

\* What a call returns was in the device since the client was dialled, whatever
\* is lost, spoilt, delayed, retried or answered late: the port of a dial is
\* what keeps replies to an earlier one away (NewClient, Close).
THEOREM ReadsRecent == Spec => []ReadsAreRecent
<1>1. RInv => ReadsAreRecent
  BY DEF RInv, RecentCalls, Recent, ReadsAreRecent
<1> QED
  BY <1>1, RecentInit, RecentStep, PTL DEF Spec

-----------------------------------------------------------------------------
(* A sure write was made.                                                  *)

Active(c) == c.at \in {"send", "recv", "backoff"}

\* Datagram d belongs to the exchange of call c, and when that is a write a
\* reply to it means that it is among the writes a, those made.
Of(d, c, a) == /\ d.x = c.x
               /\ c.is = "write" => /\ d.is # "read"
                                    /\ d.is = "reply" => d.x \in a

\* Client.mu: one exchange at a time.
Exclusive == \A k \in Callers : Active(call[k]) => mu = k

\* An exchange that began when nothing could be under way finds nothing that
\* is not its own.
Attributed ==
    \A k \in Callers : Active(call[k]) /\ call[k].clean =>
        /\ \A d \in net : d.port = port => Of(d, call[k], applied)
        /\ \A i \in 1 .. Len(inbox) : Of(inbox[i], call[k], applied)

\* While every attempt on the socket has had its good reply, one datagram is
\* under way while a reply is awaited and none otherwise.
Alone ==
    port \notin stray =>
        /\ (\A k \in Callers : call[k].at # "recv") =>
              inbox = <<>> /\ \A d \in net : d.port # port
        /\ \A d, e \in net : d.port = port /\ e.port = port => d = e
        /\ inbox # <<>> => Len(inbox) = 1 /\ \A d \in net : d.port # port

\* The inductive invariant of SureMeansApplied.
SInv == /\ RInv
        /\ Exclusive
        /\ Attributed
        /\ Alone
        /\ SureMeansApplied

\* Only one goroutine is in an exchange.
LEMMA OnlyOne ==
    ASSUME SInv, NEW k \in Callers, Active(call[k])
    PROVE  mu = k /\ \A j \in Callers \ {k} : ~Active(call[j])
  BY DEF SInv, Exclusive

\* Calls that move on without sending, and datagrams that are taken from the
\* socket, leave an exchange with its own.
LEMMA AttributedKept ==
    ASSUME Attributed, UNCHANGED <<net, port>>, applied \subseteq applied',
           \A i \in 1 .. Len(inbox') :
              \E j \in 1 .. Len(inbox) : inbox'[i] = inbox[j],
           \A k \in Callers : Active(call'[k]) =>
              /\ Active(call[k])
              /\ call'[k].x = call[k].x /\ call'[k].is = call[k].is
              /\ call'[k].clean = call[k].clean
    PROVE  Attributed'
<1> SUFFICES ASSUME NEW k \in Callers, Active(call'[k]), call'[k].clean
             PROVE  /\ \A d \in net : d.port = port =>
                          Of(d, call'[k], applied')
                    /\ \A i \in 1 .. Len(inbox') :
                          Of(inbox'[i], call'[k], applied')
  BY DEF Attributed
<1>1. /\ \A d \in net : d.port = port => Of(d, call[k], applied)
      /\ \A i \in 1 .. Len(inbox) : Of(inbox[i], call[k], applied)
  BY DEF Attributed
<1>2. \A d : Of(d, call[k], applied) => Of(d, call'[k], applied')
  BY DEF Of
<1> QED
  BY <1>1, <1>2

\* What a step of call k may do to the calls.
Moved(k) ==
    /\ \A j \in Callers \ {k} : call'[j] = call[j]
    /\ call'[k].at = "idle"
         \/ /\ call'[k].at \in {"send", "recv", "backoff"}
            /\ call'[k].x = call[k].x /\ call'[k].is = call[k].is
            /\ call'[k].clean = call[k].clean

\* A failed attempt ends the exchange or goes on with it.
LEMMA FailMoved ==
    ASSUME TypeOK, NEW k \in Callers, Fail(k) \/ AttemptFails(k)
    PROVE  /\ Moved(k)
           /\ call'[k].at \in {"idle", "backoff"}
           /\ call'[k].at = "backoff" => mu' = mu
<1>1. CASE call' = [call EXCEPT ![k] = NoCall]
  BY <1>1, NewCalls DEF TypeOK, Moved
<1>2. CASE call' = [call EXCEPT ![k].at = "backoff"] /\ UNCHANGED mu
  BY <1>2 DEF TypeOK, Call, Moved
<1> QED
  BY <1>1, <1>2 DEF Fail, AttemptFails

\* A step of the exchange under way that does not send.
LEMMA MoveStep ==
    ASSUME SInv, NEW k \in Callers, Active(call[k]), Moved(k),
           Active(call'[k]) => mu' = mu,
           UNCHANGED <<net, port, applied>>,
           \/ UNCHANGED inbox
           \/ inbox # <<>> /\ inbox' = Tail(inbox)
    PROVE  Exclusive' /\ Attributed'
<1>1. /\ mu = k
      /\ \A j \in Callers \ {k} : ~Active(call'[j])
  BY OnlyOne DEF Moved
<1>2. \A i \in 1 .. Len(inbox') :
         \E j \in 1 .. Len(inbox) : inbox'[i] = inbox[j]
  <2>1. CASE UNCHANGED inbox
    BY <2>1
  <2>2. CASE inbox # <<>> /\ inbox' = Tail(inbox)
    <3>1. inbox \in Seq(Datagram)
      BY DEF SInv, RInv, TInv, TypeOK
    <3>2. \A i \in 1 .. Len(Tail(inbox)) :
             i + 1 \in 1 .. Len(inbox) /\ Tail(inbox)[i] = inbox[i + 1]
      BY <2>2, <3>1, Head0
    <3> QED
      BY <2>2, <3>2
  <2> QED
    BY <2>1, <2>2
<1>3. Attributed'
  <2>1. \A j \in Callers : Active(call'[j]) =>
              /\ Active(call[j])
              /\ call'[j].x = call[j].x /\ call'[j].is = call[j].is
              /\ call'[j].clean = call[j].clean
    BY <1>1 DEF Moved, Active
  <2> QED
    BY <1>2, <2>1, AttributedKept DEF SInv
<1> QED
  BY <1>1, <1>3 DEF Exclusive

\* The device's answer takes the place of the request it answers.
LEMMA AnswerStep ==
    ASSUME SInv, NEW d \in net, NEW is \in {"reply", "auth", "bad"}, NEW vals,
           Answer(d, is, vals),
           UNCHANGED <<port, inbox, mu, call, stray, sure>>,
           applied \subseteq applied',
           is = "reply" => d.is = "read" \/ d.x \in applied'
    PROVE  Exclusive' /\ Attributed' /\ Alone' /\ SureMeansApplied'
<1> DEFINE r == [d EXCEPT !.is = is, !.vals = vals]
<1>1. r.port = d.port /\ r.x = d.x /\ r.is = is
  BY DEF SInv, RInv, TInv, TypeOK, Datagram
<1>2. net' = (net \ {d}) \cup {r}
  BY DEF Answer
<1> HIDE DEF r
<1>3. Attributed'
  <2> SUFFICES ASSUME NEW k \in Callers, Active(call[k]), call[k].clean
               PROVE  /\ \A e \in net' : e.port = port =>
                            Of(e, call[k], applied')
                      /\ \A i \in 1 .. Len(inbox) :
                            Of(inbox[i], call[k], applied')
    BY DEF Attributed
  <2>1. /\ \A e \in net : e.port = port => Of(e, call[k], applied)
        /\ \A i \in 1 .. Len(inbox) : Of(inbox[i], call[k], applied)
    BY DEF SInv, Attributed
  <2>2. \A e : Of(e, call[k], applied) => Of(e, call[k], applied')
    BY DEF Of
  <2>3. d.port = port => Of(r, call[k], applied')
    BY <1>1, <2>1 DEF Of
  <2> QED
    BY <1>1, <1>2, <2>1, <2>2, <2>3
<1>4. Alone'
  BY <1>1, <1>2 DEF SInv, Alone
<1>5. Exclusive' /\ SureMeansApplied'
  BY DEF SInv, Exclusive, SureMeansApplied
<1> QED
  BY <1>3, <1>4, <1>5

\* Every step keeps sure writes made.
LEMMA SureStep == SInv /\ [Next]_vars => SInv'
<1> SUFFICES ASSUME SInv, [Next]_vars
             PROVE  Exclusive' /\ Attributed' /\ Alone' /\ SureMeansApplied'
  BY RecentStep DEF SInv
<1>type. TypeOK
  BY DEF SInv, RInv, TInv
<1>1. CASE Dial
  <2>1. \A k \in Callers : ~Active(call'[k]) /\ call'[k].at # "recv"
    BY <1>1, NewCalls DEF Dial, Active
  <2>2. inbox' = <<>> /\ \A d \in net' : d.port # port'
    <3>1. \A d \in net : d.port \in Nat /\ d.port <= port
      BY <1>type DEF SInv, RInv, RecentNet, TypeOK, Datagram
    <3> QED
      BY <1>1, <1>type, <3>1 DEF Dial, TypeOK
  <2> QED
    BY <1>1, <2>1, <2>2
       DEF Dial, SInv, Exclusive, Attributed, Alone, SureMeansApplied
<1>2. CASE Close
  <2>1. inbox' = <<>> /\ UNCHANGED <<net, port, mu, call, applied, sure, stray>>
    BY <1>2 DEF Close
  <2> QED
    BY <2>1 DEF SInv, Exclusive, Attributed, Alone, SureMeansApplied
<1>3. ASSUME UNCHANGED <<net, port, inbox, mu, call, applied, sure, stray>>
      PROVE  Exclusive' /\ Attributed' /\ Alone' /\ SureMeansApplied'
  BY <1>3 DEF SInv, Exclusive, Attributed, Alone, SureMeansApplied
<1>4. ASSUME NEW k \in Callers, Lock(k)
      PROVE  Exclusive' /\ Attributed' /\ Alone' /\ SureMeansApplied'
  <2> DEFINE b == port \notin stray
  <2>1. /\ call' = [call EXCEPT ![k] =
                      [call[k] EXCEPT !.at = "send", !.clean = b]]
        /\ mu = None /\ mu' = k
        /\ UNCHANGED <<net, port, inbox, applied, sure, stray>>
    BY <1>4 DEF Lock
  <2>2. /\ call'[k].at = "send" /\ call'[k].clean = b
        /\ \A j \in Callers \ {k} : call'[j] = call[j]
    <3> HIDE DEF b
    <3>1. /\ [call[k] EXCEPT !.at = "send", !.clean = b].at = "send"
          /\ [call[k] EXCEPT !.at = "send", !.clean = b].clean = b
      BY <1>type DEF TypeOK, Call
    <3> QED
      BY <1>type, <2>1, <3>1 DEF TypeOK
  <2>3. \A j \in Callers : ~Active(call[j])
    BY <2>1, UdpClientAssumption DEF SInv, Exclusive
  <2>4. \A j \in Callers : call[j].at # "recv" /\ call'[j].at # "recv"
    BY <2>2, <2>3 DEF Active
  <2>5. \A j \in Callers \ {k} : ~Active(call'[j])
    BY <2>2, <2>3
  <2>6. Alone'
    BY <2>1, <2>4 DEF SInv, Alone
  <2>7. Attributed'
    <3>1. call'[k].clean => inbox = <<>> /\ \A d \in net : d.port # port
      BY <2>2, <2>4 DEF SInv, Alone
    <3> QED
      BY <2>1, <2>5, <3>1 DEF Attributed
  <2> QED
    BY <2>1, <2>5, <2>6, <2>7 DEF SInv, Exclusive, SureMeansApplied
<1>5. ASSUME NEW k \in Callers, Begin(k)
      PROVE  Exclusive' /\ Attributed' /\ Alone' /\ SureMeansApplied'
  <2>1. PICK r \in Requests :
           call' = [call EXCEPT ![k] = [NoCall EXCEPT !.at = "lock",
                      !.x = count + 1, !.is = r.is, !.ids = r.ids]]
    BY <1>5 DEF Begin
  <2> DEFINE c == [NoCall EXCEPT !.at = "lock", !.x = count + 1,
                                 !.is = r.is, !.ids = r.ids]
  <2>2. c.at = "lock"
    BY NewCalls
  <2>3. call' = [call EXCEPT ![k] = c]
    BY <2>1
  <2> HIDE DEF c
  <2>4. /\ call'[k].at = "lock" /\ call[k].at = "idle"
        /\ \A j \in Callers \ {k} : call'[j] = call[j]
        /\ UNCHANGED <<net, port, inbox, mu, applied, sure, stray>>
    BY <1>type, <1>5, <2>2, <2>3 DEF Begin, TypeOK
  <2>5. \A j \in Callers : Active(call'[j]) => call'[j] = call[j]
    BY <2>4 DEF Active
  <2>6. (\A j \in Callers : call'[j].at # "recv")
           => \A j \in Callers : call[j].at # "recv"
    BY <2>4
  <2>7. Alone'
    BY <2>4, <2>6 DEF SInv, Alone
  <2> QED
    BY <2>4, <2>5, <2>7 DEF SInv, Exclusive, Attributed, SureMeansApplied
<1>6. ASSUME NEW k \in Callers, ContextEnds(k)
      PROVE  Exclusive' /\ Attributed' /\ Alone' /\ SureMeansApplied'
  <2>1. /\ \A j \in Callers :
             /\ call'[j].at = call[j].at /\ call'[j].x = call[j].x
             /\ call'[j].is = call[j].is /\ call'[j].clean = call[j].clean
        /\ UNCHANGED <<net, port, inbox, mu, applied, sure, stray>>
    BY <1>type, <1>6 DEF ContextEnds, TypeOK, Call
  <2>2. Attributed'
    BY <2>1, AttributedKept DEF SInv, Active
  <2>3. Alone'
    BY <2>1 DEF SInv, Alone
  <2> QED
    BY <2>1, <2>2, <2>3 DEF SInv, Exclusive, SureMeansApplied, Active
<1>7. ASSUME NEW k \in Callers, Send(k)
      PROVE  Exclusive' /\ Attributed' /\ Alone' /\ SureMeansApplied'
  <2>1. /\ call[k].at = "send" /\ net' = net \cup {Request(k)}
        /\ call' = [call EXCEPT ![k].at = "recv"]
        /\ UNCHANGED <<port, inbox, mu, applied, sure, stray>>
    BY <1>7 DEF Send
  <2>2. /\ call'[k].at = "recv" /\ call'[k].x = call[k].x
        /\ call'[k].is = call[k].is /\ call'[k].clean = call[k].clean
        /\ \A j \in Callers \ {k} : call'[j] = call[j]
        /\ call[k].is \in {"read", "write"}
    BY <1>type, <2>1 DEF TypeOK, Call
  <2>3. mu = k /\ \A j \in Callers \ {k} : ~Active(call[j])
    BY <2>1, OnlyOne DEF Active
  <2>4. \A j \in Callers : call[j].at # "recv"
    BY <2>1, <2>3 DEF Active
  <2>5. Alone'
    BY <2>1, <2>2, <2>4 DEF SInv, Alone
  <2>6. /\ Request(k).x = call[k].x /\ Request(k).is = call[k].is
    BY DEF Request
  <2>7. Attributed'
    <3> SUFFICES ASSUME call[k].clean
                 PROVE  /\ \A d \in net' : d.port = port =>
                              Of(d, call'[k], applied)
                        /\ \A i \in 1 .. Len(inbox) :
                              Of(inbox[i], call'[k], applied)
      BY <2>1, <2>2, <2>3 DEF Attributed
    <3>1. /\ \A d \in net : d.port = port => Of(d, call[k], applied)
          /\ \A i \in 1 .. Len(inbox) : Of(inbox[i], call[k], applied)
      BY <2>1 DEF SInv, Attributed, Active
    <3>2. \A d : Of(d, call[k], applied) => Of(d, call'[k], applied)
      BY <2>2 DEF Of
    <3>3. Of(Request(k), call'[k], applied)
      BY <2>2, <2>6 DEF Of
    <3> QED
      BY <2>1, <3>1, <3>2, <3>3
  <2> QED
    BY <2>1, <2>2, <2>3, <2>5, <2>7 DEF SInv, Exclusive, SureMeansApplied
<1>8. ASSUME NEW k \in Callers, SendFails(k) \/ Backoff(k)
      PROVE  Exclusive' /\ Attributed' /\ Alone' /\ SureMeansApplied'
  <2>1. /\ call[k].at \in {"send", "backoff"}
        /\ UNCHANGED <<net, port, inbox, applied, sure, stray>>
    BY <1>8 DEF SendFails, Backoff
  <2>2. /\ Moved(k) /\ call'[k].at # "recv"
        /\ Active(call'[k]) => mu' = mu
    <3>1. CASE /\ call' = [call EXCEPT ![k].at = "send", ![k].try = @ + 1]
               /\ UNCHANGED mu
      BY <1>type, <3>1 DEF TypeOK, Call, Moved
    <3> QED
      BY <1>type, <1>8, <3>1, FailMoved DEF SendFails, Backoff, Active
  <2>3. Exclusive' /\ Attributed'
    BY <2>1, <2>2, MoveStep DEF Active
  <2>4. \A j \in Callers : call[j].at # "recv"
    BY <2>1, OnlyOne DEF Active
  <2> QED
    BY <2>1, <2>3, <2>4 DEF SInv, Alone, SureMeansApplied
<1>9. ASSUME NEW k \in Callers, TimesOut(k) \/ Reject(k)
      PROVE  Exclusive' /\ Attributed' /\ Alone' /\ SureMeansApplied'
  <2>1. /\ call[k].at = "recv"
        /\ \/ UNCHANGED inbox
           \/ inbox # <<>> /\ inbox' = Tail(inbox)
        /\ stray' = stray \cup {port}
        /\ UNCHANGED <<net, port, applied, sure>>
    BY <1>9 DEF TimesOut, Reject
  <2>2. Moved(k) /\ (Active(call'[k]) => mu' = mu)
    BY <1>type, <1>9, FailMoved DEF TimesOut, Reject, Active
  <2>3. Exclusive' /\ Attributed'
    BY <2>1, <2>2, MoveStep DEF Active
  <2> QED
    BY <2>1, <2>3 DEF SInv, Alone, SureMeansApplied
<1>10. ASSUME NEW k \in Callers, Accept(k)
       PROVE  Exclusive' /\ Attributed' /\ Alone' /\ SureMeansApplied'
  <2>1. /\ call[k].at = "recv" /\ inbox # <<>> /\ inbox' = Tail(inbox)
        /\ Head(inbox).is = "reply"
        /\ call' = [call EXCEPT ![k] = [NoCall EXCEPT !.got = Head(inbox).vals]]
        /\ UNCHANGED <<net, port, applied, stray>>
    BY <1>10 DEF Accept
  <2>2. Head(inbox) = inbox[1] /\ 1 \in 1 .. Len(inbox) /\ Len(inbox') = Len(inbox) - 1
        /\ inbox' \in Seq(Datagram)
    BY <1>type, <2>1, Head0 DEF TypeOK
  <2>3. call'[k].at = "idle" /\ \A j \in Callers \ {k} : call'[j] = call[j]
    BY <1>type, <2>1, NewCalls DEF TypeOK
  <2>4. Exclusive' /\ Attributed'
    BY <2>1, <2>3, MoveStep DEF Active, Moved
  <2>5. Alone'
    <3>1. port \notin stray => inbox' = <<>> /\ \A d \in net : d.port # port
      BY <2>1, <2>2 DEF SInv, Alone
    <3> QED
      BY <2>1, <3>1 DEF Alone
  <2>6. call[k].clean /\ call[k].is = "write" => call[k].x \in applied
    BY <2>1, <2>2 DEF SInv, Attributed, Active, Of
  <2>7. SureMeansApplied'
    BY <1>10, <2>1, <2>6 DEF Accept, SInv, SureMeansApplied
  <2> QED
    BY <2>4, <2>5, <2>7
<1>11. ASSUME NEW d \in net, HandleRead(d) \/ HandleWrite(d) \/ Refuse(d) \/ Spoil(d)
       PROVE  Exclusive' /\ Attributed' /\ Alone' /\ SureMeansApplied'
  <2>1. UNCHANGED <<port, inbox, mu, call, stray, sure>> /\ applied \subseteq applied'
    BY <1>11 DEF HandleRead, HandleWrite, Refuse, Spoil
  <2>2. PICK is, vals :
           /\ is \in {"reply", "auth", "bad"}
           /\ Answer(d, is, vals)
           /\ is = "reply" => d.is = "read" \/ d.x \in applied'
    BY <1>11 DEF HandleRead, HandleWrite, Refuse, Spoil
  <2> QED
    BY <2>1, <2>2, AnswerStep
<1>12. ASSUME NEW d \in net, Arrive(d)
       PROVE  Exclusive' /\ Attributed' /\ Alone' /\ SureMeansApplied'
  <2>1. /\ net' = net \ {d}
        /\ UNCHANGED <<port, mu, call, applied, sure, stray>>
    BY <1>12 DEF Arrive
  <2>2. CASE UNCHANGED inbox
    <3>1. Alone'
      BY <2>1, <2>2 DEF SInv, Alone
    <3>2. Attributed'
      BY <2>1, <2>2 DEF SInv, Attributed
    <3> QED
      BY <2>1, <3>1, <3>2 DEF SInv, Exclusive, SureMeansApplied
  <2>3. CASE d.port = port /\ inbox' = Append(inbox, d)
    <3>1. /\ Len(inbox') = Len(inbox) + 1 /\ Len(inbox) \in Nat
          /\ inbox'[Len(inbox) + 1] = d /\ inbox' # <<>>
          /\ \A i \in 1 .. Len(inbox) : inbox'[i] = inbox[i]
          /\ inbox = <<>> => Len(inbox) = 0
      BY <1>type, <2>3 DEF TypeOK
    <3>2. Alone'
      BY <2>1, <2>3, <3>1 DEF SInv, Alone
    <3>3. Attributed'
      <4> SUFFICES ASSUME NEW k \in Callers, Active(call[k]), call[k].clean
                   PROVE  /\ \A e \in net : e.port = port =>
                                Of(e, call[k], applied)
                          /\ \A i \in 1 .. Len(inbox') :
                                Of(inbox'[i], call[k], applied)
        BY <2>1 DEF Attributed
      <4>1. /\ \A e \in net : e.port = port => Of(e, call[k], applied)
            /\ \A i \in 1 .. Len(inbox) : Of(inbox[i], call[k], applied)
        BY DEF SInv, Attributed
      <4> QED
        BY <2>3, <3>1, <4>1
    <3> QED
      BY <2>1, <3>2, <3>3 DEF SInv, Exclusive, SureMeansApplied
  <2> QED
    BY <1>12, <2>2, <2>3 DEF Arrive
<1> QED
  BY <1>1, <1>2, <1>3, <1>4, <1>5, <1>6, <1>7, <1>8, <1>9, <1>10, <1>11, <1>12
     DEF Next, CallStep, Drift, vars

\* At the start nothing is under way.
LEMMA SureInit == Init => SInv
<1> SUFFICES ASSUME Init PROVE SInv
  OBVIOUS
<1>1. RInv
  BY RecentInit
<1>2. \A k \in Callers : ~Active(call[k])
  BY NewCalls DEF Init, Active
<1> QED
  BY <1>1, <1>2
     DEF Init, SInv, Exclusive, Attributed, Alone, SureMeansApplied

\* A write that is reported as made was made, when no attempt on the socket had
\* failed before its exchange began: for any number of goroutines, parameters,
\* retries and faults of the exchange itself (sendRecvLocked under Client.mu).
THEOREM SureWritesMade == Spec => []SureMeansApplied
<1>1. SInv => SureMeansApplied
  BY DEF SInv
<1> QED
  BY <1>1, SureInit, SureStep, PTL DEF Spec

-----------------------------------------------------------------------------
(* While no attempt has failed, the last write that was reported stands.   *)

\* Call k is writing p.
Writing(k, p) == call[k].at = "recv" /\ call[k].is = "write" /\ p \in call[k].ids

\* A reply is under way, or received and not yet read.
Replied == \/ \E d \in net : d.is = "reply"
           \/ \E i \in 1 .. Len(inbox) : inbox[i].is = "reply"

\* What holds while no attempt has failed: nothing is left of an older socket,
\* the device has the last write that was reported or the one under way, and
\* the latter once it has replied.
Standing ==
    /\ \A k \in Callers : Active(call[k]) => call[k].clean
    /\ \A d \in net : d.port = port
    /\ \A p \in Params :
          \/ dev[p] \in {last[p], Own}
          \/ \E k \in Callers : Writing(k, p) /\ dev[p] = call[k].x
    /\ \A k \in Callers : call[k].at = "recv" =>
          /\ \A d \in net : d.is = "write" =>
                call[k].is = "write" /\ d.x = call[k].x /\ d.ids = call[k].ids
          /\ call[k].is = "write" /\ Replied =>
                \A p \in call[k].ids : dev[p] \in {call[k].x, Own}

\* The inductive invariant of LastWriteStands.
LInv == SInv /\ (stray = {} => Standing)

\* Steps of calls that do not wait for a reply leave it so.
LEMMA StandingKept ==
    ASSUME Standing, UNCHANGED <<dev, net, last, port>>,
           \A i \in 1 .. Len(inbox') :
              \E j \in 1 .. Len(inbox) : inbox'[i] = inbox[j],
           \A k \in Callers :
              /\ Active(call'[k]) => call'[k].clean
              /\ call'[k].at = "recv" <=> call[k].at = "recv"
              /\ call[k].at = "recv" =>
                    /\ call'[k].x = call[k].x /\ call'[k].is = call[k].is
                    /\ call'[k].ids = call[k].ids
    PROVE  Standing'
<1>1. Replied' => Replied
  BY DEF Replied
<1>2. \A k \in Callers, p \in Params : Writing(k, p) =>
         Writing(k, p)' /\ call'[k].x = call[k].x
  BY DEF Writing
<1> QED
  BY <1>1, <1>2 DEF Standing

\* While one call waits for a reply, no other does anything.
LEMMA OneWaits ==
    ASSUME SInv, NEW k \in Callers, call[k].at = "recv"
    PROVE  \A j \in Callers \ {k} : ~Active(call[j]) /\ call[j].at # "recv"
  BY OnlyOne DEF Active

\* While no call waits for a reply, nothing is under way.
LEMMA NobodyWaits ==
    ASSUME SInv, Standing, stray = {}, \A k \in Callers : call[k].at # "recv"
    PROVE  net = {} /\ inbox = <<>>
  BY DEF SInv, Alone, Standing

\* sendRecvLocked: the datagram that is sent is the only one under way.
LEMMA StandingSend ==
    ASSUME SInv, Standing, stray = {}, NEW k \in Callers, Send(k)
    PROVE  Standing'
<1>1. /\ call[k].at = "send" /\ net' = net \cup {Request(k)}
      /\ call' = [call EXCEPT ![k].at = "recv"]
      /\ UNCHANGED <<dev, port, inbox, last>>
  BY DEF Send
<1>2. /\ call'[k].at = "recv" /\ call'[k].x = call[k].x
      /\ call'[k].is = call[k].is /\ call'[k].clean = call[k].clean
      /\ call'[k].ids = call[k].ids
      /\ \A j \in Callers \ {k} : call'[j] = call[j]
      /\ call[k].is \in {"read", "write"}
  BY <1>1 DEF SInv, RInv, TInv, TypeOK, Call
<1>3. /\ \A j \in Callers \ {k} : ~Active(call[j])
      /\ \A j \in Callers : call[j].at # "recv"
      /\ call[k].clean
  BY <1>1, OnlyOne DEF Active, Standing
<1>4. net = {} /\ inbox = <<>>
  BY <1>3, NobodyWaits
<1>5. /\ Request(k).x = call[k].x /\ Request(k).is = call[k].is
      /\ Request(k).ids = call[k].ids /\ Request(k).port = port
  BY DEF Request
<1>6. ~Replied'
  BY <1>1, <1>2, <1>4, <1>5 DEF Replied
<1>7. \A p \in Params : dev[p] \in {last[p], Own}
  BY <1>3 DEF Standing, Writing
<1> QED
  BY <1>1, <1>2, <1>3, <1>4, <1>5, <1>6, <1>7 DEF Standing, Active

\* A reply is taken: what the device has is the last reported write again.
LEMMA StandingAccept ==
    ASSUME SInv, Standing, stray = {}, NEW k \in Callers, Accept(k)
    PROVE  Standing'
<1>1. /\ call[k].at = "recv" /\ inbox # <<>> /\ inbox' = Tail(inbox)
      /\ Head(inbox).is = "reply"
      /\ call' = [call EXCEPT ![k] = [NoCall EXCEPT !.got = Head(inbox).vals]]
      /\ UNCHANGED <<dev, net, port>>
      /\ call[k].is = "write" =>
            last' = [p \in Params |-> IF p \in call[k].ids THEN call[k].x ELSE last[p]]
      /\ call[k].is # "write" => last' = last
  BY DEF Accept
<1>type. inbox \in Seq(Datagram) /\ call \in [Callers -> Call] /\ port \notin stray
  BY DEF SInv, RInv, TInv, TypeOK
<1>2. Head(inbox) = inbox[1] /\ 1 \in 1 .. Len(inbox)
  BY <1>1, <1>type, Head0
<1>3. call'[k].at = "idle" /\ \A j \in Callers \ {k} : call'[j] = call[j]
  BY <1>1, <1>type, NewCalls
<1>4. \A j \in Callers : call'[j].at # "recv" /\ ~Active(call'[j])
  BY <1>1, <1>3, OneWaits DEF Active
<1>5. \A p \in Params : dev[p] \in {last'[p], Own}
  <2>1. Replied
    BY <1>1, <1>2 DEF Replied
  <2>2. call[k].is = "write" => \A p \in call[k].ids : dev[p] \in {call[k].x, Own}
    BY <1>1, <2>1 DEF Standing
  <2>3. \A p \in Params : ~Writing(k, p) => dev[p] \in {last[p], Own}
    BY <1>1, OneWaits DEF Standing, Writing
  <2> QED
    BY <1>1, <2>2, <2>3 DEF Writing
<1> QED
  BY <1>1, <1>4, <1>5 DEF Standing

\* The device handles a datagram, or it is spoilt: net has the answer in its place.
LEMMA StandingAnswer ==
    ASSUME SInv, Standing, stray = {}, NEW d \in net,
           HandleRead(d) \/ HandleWrite(d) \/ Refuse(d) \/ Spoil(d)
    PROVE  Standing'
<1>1. PICK k \in Callers : call[k].at = "recv"
  BY NobodyWaits
<1>2. /\ \A j \in Callers \ {k} : ~Active(call[j]) /\ call[j].at # "recv"
      /\ call[k].clean
  BY <1>1, OneWaits DEF Standing, Active
<1>3. PICK is, vals :
         /\ is \in {"reply", "auth", "bad"}
         /\ Answer(d, is, vals)
         /\ is = "reply" => HandleRead(d) \/ HandleWrite(d)
  BY DEF HandleRead, HandleWrite, Refuse, Spoil
<1> DEFINE r == [d EXCEPT !.is = is, !.vals = vals]
<1>4. r.port = d.port /\ r.is = is /\ net' = (net \ {d}) \cup {r}
  BY <1>3 DEF Answer, SInv, RInv, TInv, TypeOK, Datagram
<1> HIDE DEF r
<1>5. UNCHANGED <<port, inbox, call, last>>
  BY DEF HandleRead, HandleWrite, Refuse, Spoil
<1>6. /\ d.is = "write" =>
            call[k].is = "write" /\ d.x = call[k].x /\ d.ids = call[k].ids
      /\ call[k].is = "write" => d.is # "read"
  BY <1>1, <1>2 DEF SInv, Attributed, Active, Of, Standing
<1>7. /\ \A e \in net' : e.port = port
      /\ \A e \in net' : e.is = "write" => e \in net
  BY <1>3, <1>4 DEF Standing
<1>8. CASE HandleWrite(d)
  <2>1. d.is = "write" /\ dev' = [p \in Params |-> IF p \in d.ids THEN d.x ELSE dev[p]]
    BY <1>8 DEF HandleWrite
  <2>2. \A p \in Params :
           \/ dev'[p] \in {last'[p], Own}
           \/ \E j \in Callers : Writing(j, p)' /\ dev'[p] = call'[j].x
    BY <1>1, <1>5, <1>6, <2>1 DEF Standing, Writing
  <2>3. \A p \in call[k].ids : dev'[p] = call[k].x
    BY <1>6, <2>1 DEF SInv, RInv, TInv, TypeOK, Call
  <2> QED
    BY <1>2, <1>5, <1>7, <2>2, <2>3 DEF Standing
<1>9. CASE ~HandleWrite(d)
  <2>1. dev' = dev
    BY <1>9 DEF HandleRead, Refuse, Spoil
  <2>2. call[k].is = "write" /\ Replied' => Replied
    <3>1. call[k].is = "write" => is # "reply"
      BY <1>3, <1>6, <1>9 DEF HandleRead
    <3> QED
      BY <1>4, <1>5, <3>1 DEF Replied
  <2>3. \A p \in Params :
           \/ dev'[p] \in {last'[p], Own}
           \/ \E j \in Callers : Writing(j, p)' /\ dev'[p] = call'[j].x
    BY <1>5, <2>1 DEF Standing, Writing
  <2> QED
    BY <1>2, <1>5, <1>7, <2>1, <2>2, <2>3 DEF Standing
<1> QED
  BY <1>8, <1>9

\* Every step keeps the last reported write standing.
LEMMA LastStep == LInv /\ [Next]_vars => LInv'
<1> SUFFICES ASSUME LInv, [Next]_vars PROVE LInv'
  OBVIOUS
<1>sure. SInv /\ SInv' /\ TypeOK
  BY SureStep DEF LInv, SInv, RInv, TInv
<1>1. ASSUME NEW k \in Callers, TimesOut(k) \/ Reject(k) PROVE stray' # {}
  BY <1>1 DEF TimesOut, Reject
<1>2. stray' = {} => stray = {}
  BY <1>1 DEF Next, CallStep, Dial, Close, Drift, Lock, Send, SendFails, Accept,
              Backoff, Begin, ContextEnds, HandleRead, HandleWrite, Refuse, Spoil,
              Arrive, vars
<1> SUFFICES ASSUME stray = {}, stray' = {}, Standing PROVE Standing'
  BY <1>sure, <1>2 DEF LInv
<1>3. CASE Dial
  <2>1. \A k \in Callers : call[k].at = "idle" /\ ~Active(call'[k]) /\ call'[k].at # "recv"
    BY <1>3, NewCalls DEF Dial, Active
  <2>2. net = {} /\ inbox = <<>>
    BY <1>sure, <2>1, NobodyWaits
  <2>3. net' = {} /\ UNCHANGED <<dev, last>>
    BY <1>3, <2>2 DEF Dial
  <2>4. \A p \in Params : dev'[p] \in {last'[p], Own'}
    BY <2>1, <2>3 DEF Standing, Writing, Own
  <2> QED
    BY <2>1, <2>3, <2>4 DEF Standing
<1>4. CASE Close
  BY <1>4, StandingKept DEF Close, Standing
<1>5. ASSUME NEW p \in Params, Drift(p) PROVE Standing'
  <2>1. /\ dev' = [dev EXCEPT ![p] = Own]
        /\ UNCHANGED <<net, port, inbox, call, last>>
    BY <1>5 DEF Drift
  <2>2. /\ \A q \in Params : dev'[q] \in {dev[q], Own}
        /\ Replied' = Replied
        /\ \A k \in Callers, q \in Params : Writing(k, q)' = Writing(k, q)
    BY <1>sure, <2>1 DEF TypeOK, Replied, Writing
  <2>3. \A k \in Callers : call[k].ids \subseteq Params
    BY <1>sure DEF TypeOK, Call
  <2> QED
    BY <2>1, <2>2, <2>3 DEF Standing
<1>6. ASSUME NEW k \in Callers, Begin(k) PROVE Standing'
  <2>1. PICK r \in Requests :
           call' = [call EXCEPT ![k] = [NoCall EXCEPT !.at = "lock",
                      !.x = count + 1, !.is = r.is, !.ids = r.ids]]
    BY <1>6 DEF Begin
  <2> DEFINE c == [NoCall EXCEPT !.at = "lock", !.x = count + 1,
                                 !.is = r.is, !.ids = r.ids]
  <2>2. c.at = "lock"
    BY NewCalls
  <2>3. call' = [call EXCEPT ![k] = c]
    BY <2>1
  <2> HIDE DEF c
  <2>4. /\ call'[k].at = "lock" /\ call[k].at = "idle"
        /\ \A j \in Callers \ {k} : call'[j] = call[j]
        /\ UNCHANGED <<dev, net, port, inbox, last>>
    BY <1>sure, <1>6, <2>2, <2>3 DEF Begin, TypeOK
  <2>5. \A j \in Callers : Active(call'[j]) => call'[j].clean
    BY <2>4 DEF Active, Standing
  <2> QED
    BY <2>4, <2>5, StandingKept
<1>7. ASSUME NEW k \in Callers, Lock(k) PROVE Standing'
  <2> DEFINE c == [call[k] EXCEPT !.at = "send", !.clean = TRUE]
  <2>1. /\ call' = [call EXCEPT ![k] = c] /\ call[k].at = "lock"
        /\ UNCHANGED <<dev, net, port, inbox, last>>
    BY <1>7 DEF Lock
  <2>2. c.at = "send" /\ c.clean
    BY <1>sure DEF TypeOK, Call
  <2> HIDE DEF c
  <2>3. /\ call'[k].at = "send" /\ call'[k].clean
        /\ \A j \in Callers \ {k} : call'[j] = call[j]
    BY <1>sure, <2>1, <2>2 DEF TypeOK
  <2>4. \A j \in Callers : Active(call'[j]) => call'[j].clean
    BY <2>3 DEF Standing
  <2> QED
    BY <2>1, <2>3, <2>4, StandingKept
<1>8. ASSUME NEW k \in Callers, ContextEnds(k) PROVE Standing'
  <2>1. /\ \A j \in Callers :
             /\ call'[j].at = call[j].at /\ call'[j].x = call[j].x
             /\ call'[j].is = call[j].is /\ call'[j].clean = call[j].clean
             /\ call'[j].ids = call[j].ids
        /\ UNCHANGED <<dev, net, port, inbox, last>>
    BY <1>sure, <1>8 DEF ContextEnds, TypeOK, Call
  <2>2. \A j \in Callers : Active(call'[j]) => call'[j].clean
    BY <2>1 DEF Standing, Active
  <2> QED
    BY <2>1, <2>2, StandingKept
<1>9. ASSUME NEW k \in Callers, SendFails(k) \/ Backoff(k) PROVE Standing'
  <2>1. /\ call[k].at \in {"send", "backoff"}
        /\ UNCHANGED <<dev, net, port, inbox, last>>
    BY <1>9 DEF SendFails, Backoff
  <2>2. Moved(k) /\ call'[k].at # "recv"
    <3>1. CASE call' = [call EXCEPT ![k].at = "send", ![k].try = @ + 1]
      BY <1>sure, <3>1 DEF TypeOK, Call, Moved
    <3> QED
      BY <1>sure, <1>9, <3>1, FailMoved DEF SendFails, Backoff
  <2>3. \A j \in Callers : Active(call'[j]) => call'[j].clean
    BY <2>1, <2>2 DEF Moved, Standing, Active
  <2> QED
    BY <2>1, <2>2, <2>3, StandingKept DEF Moved
<1>10. ASSUME NEW d \in net, Arrive(d) PROVE Standing'
  <2>1. net' = net \ {d} /\ UNCHANGED <<dev, port, call, last>>
    BY <1>10 DEF Arrive
  <2>2. Replied' => Replied
    <3>1. CASE UNCHANGED inbox
      BY <2>1, <3>1 DEF Replied
    <3>2. CASE inbox' = Append(inbox, d)
      <4>1. /\ Len(inbox') = Len(inbox) + 1 /\ Len(inbox) \in Nat
            /\ inbox'[Len(inbox) + 1] = d
            /\ \A i \in 1 .. Len(inbox) : inbox'[i] = inbox[i]
        BY <1>sure, <3>2 DEF TypeOK
      <4> QED
        BY <2>1, <4>1 DEF Replied
    <3> QED
      BY <1>10, <3>1, <3>2 DEF Arrive
  <2>3. \A k \in Callers, p \in Params : Writing(k, p)' = Writing(k, p)
    BY <2>1 DEF Writing
  <2> QED
    BY <2>1, <2>2, <2>3 DEF Standing
<1>11. CASE UNCHANGED vars
  BY <1>11, StandingKept DEF vars, Standing
<1> QED
  BY <1>sure, <1>1, <1>3, <1>4, <1>5, <1>6, <1>7, <1>8, <1>9, <1>10, <1>11,
     StandingSend, StandingAccept, StandingAnswer DEF Next, CallStep

\* While no attempt has failed, the device holds the last write that was reported
\* to any of the goroutines that share the client (Client.mu), unless it has
\* changed by itself.
THEOREM LastWriteKept == Spec => []LastWriteStands
<1>1. Init => LInv
  <2> SUFFICES ASSUME Init PROVE LInv
    OBVIOUS
  <2>1. SInv
    BY SureInit
  <2>2. \A k \in Callers : call[k].at = "idle"
    BY NewCalls DEF Init
  <2> QED
    BY <2>1, <2>2 DEF Init, LInv, Standing, Active
<1>2. LInv => LastWriteStands
  BY DEF LInv, Standing, Writing, LastWriteStands
<1> QED
  BY <1>1, <1>2, LastStep, PTL DEF Spec
=============================================================================
