----------------------------- MODULE UdpClient -----------------------------
(***************************************************************************)
(* One device, a client that is dialled and closed (pkg/breezy/client.go), *)
(* the goroutines that call it, and the datagrams between them, which may  *)
(* be lost, spoilt or delayed for ever.  A request is sent up to Retries   *)
(* more times; nothing in the protocol ties a reply to its request, so a   *)
(* reply that comes late is taken by whichever attempt reads next.  A lost *)
(* datagram is one that stays under way for ever.                          *)
(*                                                                         *)
(* Data.  Exchanges are numbered; the value an exchange writes is its      *)
(* number.  Each dial has a port of its own: what comes for an old port    *)
(* is dropped by the system.                                               *)
(***************************************************************************)
EXTENDS Integers, Sequences

CONSTANTS Params,     \* the device's parameters
          Requests,   \* records [is, ids]: reads and writes of parameters
          Callers,    \* goroutines that share the client
          Retries,    \* attempts after the first one
          None,
          \* Bounds of the model.
          Exchanges,  \* exchanges in all
          Dials,      \* dials in all
          Budget      \* spoilt and refused requests, ended contexts, drifts

ASSUME UdpClientAssumption ==
    /\ Requests \subseteq [is : {"read", "write"}, ids : SUBSET Params]
    /\ Retries \in Nat
    /\ None \notin Callers \cup Nat
    /\ Exchanges \in Nat
    /\ Dials \in Nat
    /\ Budget \in Nat

VARIABLES dev,      \* the exchange that last wrote each parameter
          net,      \* datagrams under way
          port,     \* the client's socket
          open,     \* it is not closed
          inbox,    \* what the socket has received and nobody has read
          mu,       \* Client.mu: its holder, or None
          call,     \* the call each goroutine is in
          count,    \* exchanges begun so far
          applied,  \* history: writes the device has made
          acked,    \* history: writes reported as made
          sure,     \* history: those begun when nothing could be under way
          last,     \* history: for each parameter the last write in acked
          held,     \* history: values the device had since the dial
          stray,    \* history: ports with an attempt that got no good reply
          budget

vars == <<dev, net, port, open, inbox, mu, call, count, applied, acked, sure,
          last, held, stray, budget>>

Values == [Params -> Nat \cup {None}]
NoValues == [p \in Params |-> None]

\* A request, or the reply to one; bad is one that does not decode.
Datagram == [is : {"read", "write", "reply", "auth", "bad"}, port : Nat,
             x : Nat, try : Nat, ids : SUBSET Params, vals : Values]

Call == [at : {"idle", "lock", "send", "recv", "backoff"}, x : Nat,
         is : {"read", "write"}, ids : SUBSET Params, try : 0 .. Retries,
         done : BOOLEAN, clean : BOOLEAN, got : Values]

NoCall == [at |-> "idle", x |-> 0, is |-> "read", ids |-> {}, try |-> 0,
           done |-> FALSE, clean |-> FALSE, got |-> NoValues]

Spend == /\ budget > 0
         /\ budget' = budget - 1

Init == /\ dev = [p \in Params |-> 0]
        /\ net = {}
        /\ port = 0
        /\ open = FALSE
        /\ inbox = <<>>
        /\ mu = None
        /\ call = [k \in Callers |-> NoCall]
        /\ count = 0
        /\ applied = {}
        /\ acked = {}
        /\ sure = {}
        /\ last = [p \in Params |-> 0]
        /\ held = [p \in Params |-> {0}]
        /\ stray = {}
        /\ budget = Budget

-----------------------------------------------------------------------------
(* The client: NewClient, Close, and one exchange.                         *)

\* Defect: a client that is closed leaves its socket to the next one.
DialSamePort ==
    /\ ~open
    /\ port < Dials
    /\ \A k \in Callers : call[k].at = "idle"
    /\ open' = TRUE
    /\ port' = IF port = 0 THEN 1 ELSE port
    /\ call' = [k \in Callers |-> NoCall]
    /\ held' = [p \in Params |-> {dev[p]}]
    /\ UNCHANGED <<dev, net, inbox, mu, count, applied, acked, sure, last,
                   stray, budget>>

Dial == /\ ~open
        /\ port < Dials
        /\ \A k \in Callers : call[k].at = "idle"
        /\ port' = port + 1
        /\ open' = TRUE
        /\ inbox' = <<>>
        /\ call' = [k \in Callers |-> NoCall]
        /\ held' = [p \in Params |-> {dev[p]}]
        /\ UNCHANGED <<dev, net, mu, count, applied, acked, sure, last, stray,
                       budget>>

\* Close may come while calls are under way: their socket fails.
Close == /\ open
         /\ open' = FALSE
         /\ inbox' = <<>>
         /\ UNCHANGED <<dev, net, port, mu, call, count, applied, acked, sure,
                        last, held, stray, budget>>

Begin(k) ==
    /\ open
    /\ call[k].at = "idle"
    /\ count < Exchanges
    /\ count' = count + 1
    /\ \E r \in Requests :
         call' = [call EXCEPT ![k] = [NoCall EXCEPT !.at = "lock",
                    !.x = count + 1, !.is = r.is, !.ids = r.ids]]
    /\ UNCHANGED <<dev, net, port, open, inbox, mu, applied, acked, sure,
                   last, held, stray, budget>>

\* Defect: an exchange does not take the mutex.
LockShared(k) ==
    /\ call[k].at = "lock"
    /\ call' = [call EXCEPT ![k].at = "send", ![k].clean = port \notin stray]
    /\ UNCHANGED <<dev, net, port, open, inbox, mu, count, applied, acked,
                   sure, last, held, stray, budget>>

Lock(k) ==
    /\ call[k].at = "lock"
    /\ mu = None
    /\ mu' = k
    /\ call' = [call EXCEPT ![k].at = "send", ![k].clean = port \notin stray]
    /\ UNCHANGED <<dev, net, port, open, inbox, count, applied, acked, sure,
                   last, held, stray, budget>>

\* The exchange returns an error and lets go of the mutex.
Fail(k) == /\ call' = [call EXCEPT ![k] = NoCall]
           /\ mu' = None

\* Defect: one attempt too many.
AttemptFailsOffByOne(k) ==
    IF call[k].done \/ call[k].try > Retries
    THEN Fail(k)
    ELSE /\ call' = [call EXCEPT ![k].at = "backoff"]
         /\ UNCHANGED mu

\* Another attempt after the backoff, unless there is no more to make.  An
\* ended context is found by mapNetErr, by the wait or by the next attempt.
AttemptFails(k) ==
    IF call[k].done \/ call[k].try = Retries
    THEN Fail(k)
    ELSE /\ call' = [call EXCEPT ![k].at = "backoff"]
         /\ UNCHANGED mu

Request(k) == [is |-> call[k].is, port |-> port, x |-> call[k].x,
               try |-> call[k].try, ids |-> call[k].ids, vals |-> NoValues]

Send(k) ==
    /\ call[k].at = "send"
    /\ open
    /\ ~call[k].done
    /\ net' = net \cup {Request(k)}
    /\ call' = [call EXCEPT ![k].at = "recv"]
    /\ UNCHANGED <<dev, port, open, inbox, mu, count, applied, acked, sure,
                   last, held, stray, budget>>

\* The context has ended before the attempt, or its socket is closed.
SendFails(k) ==
    /\ call[k].at = "send"
    /\ ~open \/ call[k].done
    /\ AttemptFails(k)
    /\ UNCHANGED <<dev, net, port, open, inbox, count, applied, acked, sure,
                   last, held, stray, budget>>

\* Defect: a FUNC 0x07 reply passes for an answer.
AcceptRefusal(k) ==
    LET d == Head(inbox) IN
    /\ call[k].at = "recv"
    /\ inbox # <<>>
    /\ d.is \in {"reply", "auth"}
    /\ inbox' = Tail(inbox)
    /\ call' = [call EXCEPT ![k] = [NoCall EXCEPT !.got = d.vals]]
    /\ mu' = None
    /\ IF call[k].is = "write"
       THEN /\ acked' = acked \cup {call[k].x}
            /\ sure' = IF call[k].clean THEN sure \cup {call[k].x} ELSE sure
            /\ last' = [p \in Params |-> IF p \in call[k].ids THEN call[k].x
                                                              ELSE last[p]]
       ELSE UNCHANGED <<acked, sure, last>>
    /\ UNCHANGED <<dev, net, port, open, count, applied, held, stray, budget>>

\* The reply read is taken whatever it answers: only its ID block, its
\* password and its checksum are looked at.
Accept(k) ==
    LET d == Head(inbox) IN
    /\ call[k].at = "recv"
    /\ inbox # <<>>
    /\ d.is = "reply"
    /\ inbox' = Tail(inbox)
    /\ call' = [call EXCEPT ![k] = [NoCall EXCEPT !.got = d.vals]]
    /\ mu' = None
    /\ IF call[k].is = "write"
       THEN /\ acked' = acked \cup {call[k].x}
            /\ sure' = IF call[k].clean THEN sure \cup {call[k].x} ELSE sure
            /\ last' = [p \in Params |-> IF p \in call[k].ids THEN call[k].x
                                                              ELSE last[p]]
       ELSE UNCHANGED <<acked, sure, last>>
    /\ UNCHANGED <<dev, net, port, open, count, applied, held, stray, budget>>

\* ErrAuth is final, any other fault of the reply a reason to try again.
Reject(k) ==
    LET d == Head(inbox) IN
    /\ call[k].at = "recv"
    /\ inbox # <<>>
    /\ d.is \in {"auth", "bad"}
    /\ inbox' = Tail(inbox)
    /\ IF d.is = "auth" THEN Fail(k) ELSE AttemptFails(k)
    /\ stray' = stray \cup {port}
    /\ UNCHANGED <<dev, net, port, open, count, applied, acked, sure, last,
                   held, budget>>

\* Defect: the exchange that has used up its attempts keeps the mutex.
TimesOutLocked(k) ==
    /\ call[k].at = "recv"
    /\ call' = [call EXCEPT ![k].at = IF call[k].try = Retries THEN "idle"
                                                              ELSE "backoff"]
    /\ stray' = stray \cup {port}
    /\ UNCHANGED <<dev, net, port, open, inbox, mu, count, applied, acked,
                   sure, last, held, budget>>

\* The deadline of the attempt has passed, or the socket was closed.
TimesOut(k) ==
    /\ call[k].at = "recv"
    /\ AttemptFails(k)
    /\ stray' = stray \cup {port}
    /\ UNCHANGED <<dev, net, port, open, inbox, count, applied, acked, sure,
                   last, held, budget>>

Backoff(k) ==
    /\ call[k].at = "backoff"
    /\ IF call[k].done
       THEN Fail(k)
       ELSE /\ call' = [call EXCEPT ![k].at = "send", ![k].try = @ + 1]
            /\ UNCHANGED mu
    /\ UNCHANGED <<dev, net, port, open, inbox, count, applied, acked, sure,
                   last, held, stray, budget>>

\* The caller's context is cancelled or its deadline passes.
ContextEnds(k) ==
    /\ call[k].at # "idle"
    /\ ~call[k].done
    /\ call' = [call EXCEPT ![k].done = TRUE]
    /\ Spend
    /\ UNCHANGED <<dev, net, port, open, inbox, mu, count, applied, acked,
                   sure, last, held, stray>>

-----------------------------------------------------------------------------
(* The device, and the network.                                            *)

Answer(d, is, vals) ==
    net' = (net \ {d}) \cup {[d EXCEPT !.is = is, !.vals = vals]}

Only(ids, f) == [p \in Params |-> IF p \in ids THEN f[p] ELSE None]

HandleRead(d) ==
    /\ d.is = "read"
    /\ Answer(d, "reply", Only(d.ids, dev))
    /\ UNCHANGED <<dev, port, open, inbox, mu, call, count, applied, acked,
                   sure, last, held, stray, budget>>

\* A write is applied each time a copy of it comes.
HandleWrite(d) ==
    /\ d.is = "write"
    /\ dev' = [p \in Params |-> IF p \in d.ids THEN d.x ELSE dev[p]]
    /\ held' = [p \in Params |-> held[p] \cup {dev'[p]}]
    /\ applied' = applied \cup {d.x}
    /\ Answer(d, "reply", Only(d.ids, dev'))
    /\ UNCHANGED <<port, open, inbox, mu, call, count, acked, sure, last,
                   stray, budget>>

\* A number no exchange has.
Own == Exchanges + 1

\* The device's panel or remote control changes a parameter.
Drift(p) ==
    /\ dev' = [dev EXCEPT ![p] = Own]
    /\ held' = [held EXCEPT ![p] = @ \cup {Own}]
    /\ Spend
    /\ UNCHANGED <<net, port, open, inbox, mu, call, count, applied, acked,
                   sure, last, stray>>

\* The device's password is not the client's.
Refuse(d) ==
    /\ d.is \in {"read", "write"}
    /\ Answer(d, "auth", NoValues)
    /\ Spend
    /\ UNCHANGED <<dev, port, open, inbox, mu, call, count, applied, acked,
                   sure, last, held, stray>>

\* A request that is spoilt on the way is dropped by the device, so it is
\* like one that is lost.
Spoil(d) ==
    /\ d.is = "reply"
    /\ Answer(d, "bad", NoValues)
    /\ Spend
    /\ UNCHANGED <<dev, port, open, inbox, mu, call, count, applied, acked,
                   sure, last, held, stray>>

Arrive(d) ==
    /\ d.is \in {"reply", "auth", "bad"}
    /\ net' = net \ {d}
    /\ inbox' = IF open /\ d.port = port THEN Append(inbox, d) ELSE inbox
    /\ UNCHANGED <<dev, port, open, mu, call, count, applied, acked, sure,
                   last, held, stray, budget>>

CallStep(k) == Lock(k) \/ Send(k) \/ SendFails(k) \/ Accept(k) \/ Reject(k)
                 \/ TimesOut(k) \/ Backoff(k)

Next == \/ Dial \/ Close
        \/ \E p \in Params : Drift(p)
        \/ \E k \in Callers : CallStep(k) \/ Begin(k) \/ ContextEnds(k)
        \/ \E d \in net : HandleRead(d) \/ HandleWrite(d) \/ Refuse(d)
                            \/ Spoil(d) \/ Arrive(d)

Spec == Init /\ [][Next]_vars

\* A call runs on: its deadline and its backoff are timers, and Go's mutexes
\* go to whoever has waited longest.
FairSpec == /\ Spec
            /\ \A k \in Callers : /\ WF_vars(CallStep(k))
                                  /\ SF_vars(Lock(k))

-----------------------------------------------------------------------------
\* Type correctness of the client, the network and the device.
TypeOK == /\ dev \in [Params -> Nat]
          /\ net \subseteq Datagram
          /\ port \in Nat
          /\ open \in BOOLEAN
          /\ inbox \in Seq(Datagram)
          /\ mu \in Callers \cup {None}
          /\ call \in [Callers -> Call]
          /\ count \in Nat
          /\ applied \subseteq Nat
          /\ acked \subseteq Nat
          /\ sure \subseteq acked
          /\ last \in [Params -> Nat]
          /\ held \in [Params -> SUBSET Nat]
          /\ stray \subseteq Nat
          /\ budget \in Nat

\* A write reported as made was made by the device: "Uses FUNC=0x03
\* (write-with-response) so we can detect transport-level failures"
\* (client.go:192-193).
AckMeansApplied == acked \subseteq applied

\* It was, when no attempt on the socket had failed before the exchange
\* began, whatever is lost, spoilt or delayed in the exchange itself: what an
\* operation of one exchange on a fresh client (dial) relies on.
SureMeansApplied == sure \subseteq applied

\* What a call returns was in the device at some time since the client was
\* dialled: the cache may take it for newer than anything that was there
\* when udpMu was taken.
ReadsAreRecent ==
    \A k \in Callers : \A p \in Params :
        call[k].got[p] # None => call[k].got[p] \in held[p]

\* While no attempt has failed, the goroutines that share the client see the
\* device as if it were theirs: it holds the last write that was reported,
\* unless it has changed by itself.
LastWriteStands ==
    (/\ stray = {}
     /\ open
     /\ \A k \in Callers : call[k].at \in {"idle", "lock"}) =>
        \A p \in Params : dev[p] \in {last[p], Own}

\* Every call returns, however many datagrams are lost and however many
\* goroutines share the client: timeouts and backoffs are bounded, and each
\* way out lets go of the mutex.
CallsReturn == \A k \in Callers : call[k].at = "lock" ~> call[k].at = "idle"
=============================================================================
