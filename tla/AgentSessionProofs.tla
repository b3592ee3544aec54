------------------------- MODULE AgentSessionProofs -------------------------
(***************************************************************************)
(* The link between the host and the helper in the guest, for any number   *)
(* of callers, calls and events: the calls get one answer each and none    *)
(* waits for ever, and shells and observations are known to those who can  *)
(* end them.                                                               *)
(***************************************************************************)
EXTENDS AgentSession, TLAPS

Status == {"ok", "canceled", "frozen", "busy", "unavailable", "lagged",
           "revoked", "closed"}
Slot == Number \cup {Nothing}

CallRec == [pc : {"idle", "send", "wait"}, op : Methods \cup {"none"},
            seq : Slot, stream : Slot]
ClientRec == [term : Slot, obs : Slot, closed : BOOLEAN, reading : BOOLEAN]
ServerRec == [frozen : BOOLEAN, term : Slot, watching : BOOLEAN,
              watchStream : Slot, poll : BOOLEAN, serving : BOOLEAN]
ReqFrame == [kind : {"request"}, method : Methods, seq : Number, stream : Number]
RespFrame == [kind : {"response"}, seq : Number, stream : {Nothing}, status : Status]
StreamFrame == [kind : {"pty", "watch"}, seq : {Nothing}, stream : Number, status : Status]

Frame == RespFrame \cup StreamFrame

\* The frames under way.
Elements(s) == {s[i] : i \in 1 .. Len(s)}
Requests == Elements(toServer)
Frames == Elements(toClient)

Busy(c) == calls[c].pc # "idle"

TypeOK ==
    /\ client \in ClientRec
    /\ last \in 0 .. MaxCalls
    /\ pending \in SUBSET (1 .. last)
    /\ answer \in [Number -> Status \cup {"empty"}]
    /\ calls \in [Caller -> CallRec]
    /\ \A c \in Caller : IF Busy(c)
          THEN calls[c].op \in Methods /\ calls[c].seq \in 1 .. last
               /\ calls[c].stream \in 1 .. last
          ELSE calls[c] = Idle
    /\ terms \in [Number -> [closed : BOOLEAN, dead : Status \cup {"no"}]]
    /\ obs \in [Number -> [queue : Nat, failed : Status \cup {"no"}]]
    /\ handles \in SUBSET ({"attach", "watch"} \X (1 .. last))
    /\ aborting \in SUBSET Number
    /\ frames \in Nat
    /\ server \in ServerRec /\ (server.watching => server.watchStream # Nothing)
    /\ shells \in [Number -> {"none", "running", "exited", "killed", "done"}]
    /\ toServer \in Seq(ReqFrame)
    /\ toClient \in Seq(Frame)

----------------------------------------------------------------------------
(* Calls and their answers.                                                *)

\* Every number is used once: the call that has it, its request and its
\* response follow each other.
InTurn ==
    /\ \A c, d \in Caller : Busy(c) /\ Busy(d) /\ calls[c].seq = calls[d].seq => c = d
    /\ \A c \in Caller : calls[c].pc = "send" =>
          /\ calls[c].seq \notin pending /\ answer[calls[c].seq] = "empty"
          /\ \A f \in Requests : f.seq # calls[c].seq
          /\ \A f \in Frames : f.seq # calls[c].seq
    /\ \A f \in Requests : \A c \in Caller : Busy(c) /\ calls[c].seq = f.seq =>
          calls[c].op = f.method /\ calls[c].stream = f.stream
    /\ \A f \in Requests : f.seq <= last
    /\ \A f \in Frames : f.seq <= last
    /\ \A n \in Number : answer[n] # "empty" => n <= last
    /\ \A i, j \in 1 .. Len(toServer) : toServer[i].seq = toServer[j].seq => i = j
    /\ \A f \in Requests : \A g \in Frames : f.seq # g.seq
    /\ \A f \in Requests : answer[f.seq] = "empty" \/ client.closed

Usable == up /\ ~client.closed

----------------------------------------------------------------------------
(* Shells.                                                                 *)

ShellsOK ==
    /\ RunningShellIsKnown
    /\ \A n \in Number : shells[n] # "none" => n <= last
    /\ \A c \in Caller : Busy(c) /\ calls[c].op = "attach" =>
          /\ calls[c].stream = calls[c].seq
          /\ <<"attach", calls[c].seq>> \notin handles
          /\ calls[c].pc = "send" => shells[calls[c].seq] = "none"
    /\ \A c \in Caller : Busy(c) /\ calls[c].op = "detach" =>
          <<"attach", calls[c].stream>> \in handles
    /\ \A f \in Requests : f.method = "attach" =>
          f.stream = f.seq /\ shells[f.seq] = "none"
    /\ \A n \in Number : server.term = n => shells[n] # "none"
    /\ \A n \in Number : terms[n].closed => <<"attach", n>> \in handles

\* What holds while the link can be used.
AttachesOK ==
    Usable =>
        /\ \A f \in Requests : f.method = "attach" =>
              /\ <<"attach", f.seq>> \notin handles
              /\ \/ f.seq \in expired
                 \/ \E c \in Caller : Busy(c) /\ calls[c].op = "attach" /\ calls[c].seq = f.seq
        /\ \A c \in Caller : Busy(c) /\ calls[c].op = "attach" =>
              \/ shells[calls[c].seq] # "running"
              \/ /\ answer[calls[c].seq] \in {"empty", "ok"}
                 /\ \A g \in Frames : g.kind = "response" /\ g.seq = calls[c].seq
                                         => g.status = "ok"
        /\ \A c \in Caller : calls[c].pc = "wait" /\ calls[c].op = "detach" =>
              \/ shells[calls[c].stream] # "running"
              \/ \E f \in Requests : f.seq = calls[c].seq

----------------------------------------------------------------------------
(* Observations.                                                           *)

Opening(n) == \E c \in Caller : Busy(c) /\ calls[c].op = "watch" /\ calls[c].seq = n
Ended(n) == obs[n].failed # "no"

ObsOK ==
    /\ \A c \in Caller : Busy(c) /\ calls[c].op = "watch" =>
          calls[c].stream = calls[c].seq
    /\ \A f \in Requests : f.method = "watch" => f.stream = f.seq
    /\ \A n \in Number : (<<"watch", n>> \in handles \/ Opening(n)) /\ ~Ended(n)
          => client.obs = n
    /\ \A n \in aborting : Ended(n)
    /\ \A c \in Caller : Busy(c) /\ calls[c].op = "unwatch" => Ended(calls[c].stream)
    /\ \A f \in Requests : f.method = "unwatch" => Ended(f.stream)

Granted(n) ==
    \/ <<"watch", n>> \in handles
    \/ /\ Opening(n)
       /\ answer[n] = "ok" \/ \E g \in Frames : g.kind = "response" /\ g.seq = n /\ g.status = "ok"

Watched(n) ==
    \/ server.watching /\ server.watchStream = n
    \/ \E g \in Frames : g.kind = "watch" /\ g.stream = n /\ g.status # "ok"

GrantedOK == up => \A n \in Number : Granted(n) /\ ~Ended(n) => Watched(n)

----------------------------------------------------------------------------
(* Waiting.                                                                *)

\* The request or the response of call n is on its way.
Arriving(n) ==
    \/ \E f \in Requests : f.seq = n
    \/ \E g \in Frames : g.kind = "response" /\ g.seq = n

Awaited(n) == n \in pending /\ client.reading /\ (up => Arriving(n))

WaitsOK ==
    /\ ~client.reading => ~up
    /\ \A c \in Caller : calls[c].pc = "wait" /\ ~panicked =>
          answer[calls[c].seq] # "empty" \/ Awaited(calls[c].seq)

Inv == TypeOK /\ InTurn /\ OneAnswer /\ ShellsOK /\ AttachesOK /\ ShellHasOwner
       /\ ObsOK /\ GrantedOK /\ WaitsOK

----------------------------------------------------------------------------
(* Frames under way.                                                       *)

LEMMA AppendElements ==
    ASSUME NEW S, NEW s \in Seq(S), NEW x \in S
    PROVE  Append(s, x) \in Seq(S) /\ Elements(Append(s, x)) = Elements(s) \cup {x}
<1>1. /\ Append(s, x) \in Seq(S) /\ Len(Append(s, x)) = Len(s) + 1 /\ Len(s) \in Nat
      /\ \A i \in 1 .. Len(s) : Append(s, x)[i] = s[i]
      /\ Append(s, x)[Len(s) + 1] = x
  OBVIOUS
<1>2. \A i \in 1 .. Len(s) + 1 : i \in 1 .. Len(s) \/ i = Len(s) + 1
  BY <1>1
<1>3. Elements(Append(s, x)) \subseteq Elements(s) \cup {x}
  BY <1>1, <1>2 DEF Elements
<1>4. Elements(s) \cup {x} \subseteq Elements(Append(s, x))
  BY <1>1 DEF Elements
<1> QED BY <1>1, <1>3, <1>4

LEMMA ConcatElements ==
    ASSUME NEW S, NEW s \in Seq(S), NEW t \in Seq(S)
    PROVE  s \o t \in Seq(S) /\ Elements(s \o t) = Elements(s) \cup Elements(t)
<1>1. /\ s \o t \in Seq(S) /\ Len(s \o t) = Len(s) + Len(t)
      /\ Len(s) \in Nat /\ Len(t) \in Nat
      /\ \A i \in 1 .. Len(s) : (s \o t)[i] = s[i]
      /\ \A i \in 1 .. Len(t) : (s \o t)[Len(s) + i] = t[i]
  OBVIOUS
<1>2. \A i \in 1 .. Len(s) + Len(t) :
         i \in 1 .. Len(s) \/ \E j \in 1 .. Len(t) : i = Len(s) + j
  <2> SUFFICES ASSUME NEW i \in 1 .. Len(s) + Len(t), i \notin 1 .. Len(s)
               PROVE  i - Len(s) \in 1 .. Len(t) /\ i = Len(s) + (i - Len(s))
    OBVIOUS
  <2> QED BY <1>1
<1>3. Elements(s \o t) \subseteq Elements(s) \cup Elements(t)
  BY <1>1, <1>2 DEF Elements
<1>4. \A i \in 1 .. Len(s) : i \in 1 .. Len(s) + Len(t)
  BY <1>1
<1>5. \A i \in 1 .. Len(t) : Len(s) + i \in 1 .. Len(s) + Len(t)
  BY <1>1
<1>6. Elements(s) \cup Elements(t) \subseteq Elements(s \o t)
  BY <1>1, <1>4, <1>5 DEF Elements
<1> QED BY <1>1, <1>3, <1>6

LEMMA TailElements ==
    ASSUME NEW S, NEW s \in Seq(S), s # <<>>
    PROVE  /\ Tail(s) \in Seq(S) /\ Head(s) \in S /\ Head(s) \in Elements(s)
           /\ Elements(s) = Elements(Tail(s)) \cup {Head(s)}
           /\ Len(Tail(s)) = Len(s) - 1 /\ Len(s) \in Nat /\ Len(s) >= 1
           /\ \A i \in 1 .. Len(s) - 1 : Tail(s)[i] = s[i + 1]
<1>1. /\ Tail(s) \in Seq(S) /\ Head(s) \in S /\ Head(s) = s[1]
      /\ Len(Tail(s)) = Len(s) - 1 /\ Len(s) \in Nat /\ Len(s) >= 1
      /\ \A i \in 1 .. Len(s) - 1 : Tail(s)[i] = s[i + 1]
  OBVIOUS
<1>2. \A i \in 1 .. Len(s) - 1 : i + 1 \in 1 .. Len(s)
  BY <1>1
<1>3. \A i \in 1 .. Len(s) : i = 1 \/ (i - 1 \in 1 .. Len(s) - 1 /\ i = (i - 1) + 1)
  BY <1>1
<1>4. Head(s) \in Elements(s)
  BY <1>1 DEF Elements
<1>5. Elements(Tail(s)) \subseteq Elements(s)
  BY <1>1, <1>2 DEF Elements
<1>6. Elements(s) \subseteq Elements(Tail(s)) \cup {Head(s)}
  BY <1>1, <1>3 DEF Elements
<1> QED BY <1>1, <1>4, <1>5, <1>6

LEMMA SingleElement ==
    ASSUME NEW S, NEW x \in S
    PROVE  <<x>> \in Seq(S) /\ Elements(<<x>>) = {x} /\ <<>> \in Seq(S) /\ Elements(<<>>) = {}
BY DEF Elements

----------------------------------------------------------------------------
(* What the parts of the steps do.                                         *)

TermType == [Number -> [closed : BOOLEAN, dead : Status \cup {"no"}]]
ObsType == [Number -> [queue : Nat, failed : Status \cup {"no"}]]

LEMMA Numbers ==
    /\ MaxCalls \in Nat /\ Nothing \notin Number /\ Nothing \in Slot
    /\ Number \subseteq Slot /\ Number \subseteq Nat /\ "no" \notin Status
    /\ "empty" \notin Status
BY AgentAssumption DEF Number, Nothing, Slot, Status

LEMMA HangupEffect ==
    ASSUME terms \in TermType, NEW n \in Slot, NEW status \in Status, HangupTerm(n, status)
    PROVE  terms' \in TermType /\ \A m \in Number : terms'[m].closed = terms[m].closed
<1>1. CASE n = Nothing
  BY <1>1 DEF HangupTerm
<1>2. CASE n # Nothing
  <2> DEFINE h == HungUp(n, status)
             r == [terms[n] EXCEPT !.dead = h]
  <2>1. n \in Number /\ terms[n] \in [closed : BOOLEAN, dead : Status \cup {"no"}]
    BY <1>2 DEF Slot, TermType
  <2>2. h \in Status \cup {"no"}
    BY <2>1 DEF HungUp
  <2> HIDE DEF h
  <2>3. r \in [closed : BOOLEAN, dead : Status \cup {"no"}] /\ r.closed = terms[n].closed
    BY <2>1, <2>2
  <2>4. terms' = [terms EXCEPT ![n] = r]
    BY <1>2 DEF HangupTerm, h
  <2> HIDE DEF r
  <2> QED BY <2>1, <2>3, <2>4 DEF TermType
<1> QED BY <1>1, <1>2

LEMMA FailEffect ==
    ASSUME obs \in ObsType, NEW n \in Slot, NEW status \in Status, FailObs(n, status)
    PROVE  /\ obs' \in ObsType
           /\ \A m \in Number : m # n => obs'[m] = obs[m]
           /\ n # Nothing => Ended(n)'
           /\ \A m \in Number : Ended(m) => Ended(m)'
<1>1. CASE n = Nothing
  BY <1>1 DEF FailObs, Ended
<1>2. CASE n # Nothing
  <2> DEFINE h == Failed(n, status)
             r == [obs[n] EXCEPT !.failed = h]
  <2>1. n \in Number /\ obs[n] \in [queue : Nat, failed : Status \cup {"no"}]
    BY <1>2 DEF Slot, ObsType
  <2>2. h \in Status \cup {"no"} /\ h # "no"
    BY <2>1, Numbers DEF Failed
  <2> HIDE DEF h
  <2>3. r \in [queue : Nat, failed : Status \cup {"no"}] /\ r.failed = h
    BY <2>1, <2>2
  <2>4. obs' = [obs EXCEPT ![n] = r]
    BY <1>2 DEF FailObs, h
  <2> HIDE DEF r
  <2>5. obs' \in ObsType /\ obs'[n] = r /\ \A m \in Number : m # n => obs'[m] = obs[m]
    BY <2>1, <2>3, <2>4 DEF ObsType
  <2> QED BY <2>2, <2>3, <2>5 DEF Ended
<1> QED BY <1>1, <1>2

LEMMA TypeParts ==
    ASSUME TypeOK
    PROVE  /\ client \in ClientRec /\ last \in Nat /\ last <= MaxCalls
           /\ 1 .. last \subseteq Number /\ pending \subseteq Number
           /\ answer \in [Number -> Status \cup {"empty"}]
           /\ calls \in [Caller -> CallRec]
           /\ terms \in TermType /\ obs \in ObsType
           /\ server \in ServerRec
           /\ shells \in [Number -> {"none", "running", "exited", "killed", "done"}]
           /\ toServer \in Seq(ReqFrame) /\ toClient \in Seq(Frame)
           /\ Requests \subseteq ReqFrame /\ Frames \subseteq Frame
<1>1. 1 .. last \subseteq Number
  BY Numbers DEF TypeOK, Number
<1>2. Requests \subseteq ReqFrame /\ Frames \subseteq Frame
  BY DEF TypeOK, Requests, Frames, Elements
<1> QED BY <1>1, <1>2, Numbers DEF TypeOK, TermType, ObsType

LEMMA BeginEffect ==
    ASSUME TypeOK, NEW c \in Caller, NEW op, NEW n \in 0 .. last, Begin(c, op, n)
    PROVE  /\ last + 1 \in Number /\ last' = last + 1 /\ last' \in 0 .. MaxCalls
           /\ op \in Methods /\ calls[c].pc = "idle"
           /\ calls' \in [Caller -> CallRec]
           /\ calls'[c].pc = "send" /\ calls'[c].op = op /\ calls'[c].seq = last + 1
           /\ calls'[c].stream = IF n = Nothing THEN last + 1 ELSE n
           /\ \A d \in Caller : d # c => calls'[d] = calls[d]
<1>1. last \in Nat /\ last < MaxCalls
  BY TypeParts, AgentAssumption DEF Begin, CallBound
<1>2. last + 1 \in Number /\ last + 1 \in 0 .. MaxCalls
  BY <1>1, Numbers DEF Number
<1>3. op \in Methods /\ op \in Methods \cup {"none"}
  BY AgentAssumption DEF Begin
<1> DEFINE s == IF n = Nothing THEN last + 1 ELSE n
           r == [pc |-> "send", op |-> op, seq |-> last + 1, stream |-> s]
<1>4. s \in Slot /\ last + 1 \in Slot
  BY <1>1, <1>2, TypeParts DEF Slot, Nothing
<1> HIDE DEF s
<1>5. r \in CallRec
  BY <1>3, <1>4 DEF CallRec
<1>6. calls' = [calls EXCEPT ![c] = r]
  BY DEF Begin, s
<1> QED BY <1>2, <1>3, <1>5, <1>6, TypeParts DEF Begin, s

\* The end of a call: who makes it, and with what.
LEMMA SettleEffect ==
    ASSUME TypeOK, NEW c \in Caller, Busy(c), NEW status \in Status, Settle(c, status)
    PROVE  /\ calls' \in [Caller -> CallRec] /\ calls'[c] = Idle
           /\ \A d \in Caller : d # c => calls'[d] = calls[d]
           /\ handles' = IF status = "ok" /\ calls[c].op \in {"attach", "watch"}
                         THEN handles \cup {<<calls[c].op, calls[c].stream>>} ELSE handles
           /\ client' \in ClientRec /\ client'.closed = client.closed
           /\ client'.reading = client.reading
           /\ client'.obs = IF \/ calls[c].op = "unwatch"
                               \/ calls[c].op = "watch" /\ status # "ok"
                            THEN ObsWithout(calls[c].stream) ELSE client.obs
           /\ terms' \in TermType /\ \A m \in Number : terms'[m].closed = terms[m].closed
           /\ obs' \in ObsType
           /\ \A m \in Number : Ended(m) => Ended(m)'
           /\ \A m \in Number : obs'[m] = obs[m] \/ (m = calls[c].stream /\ Ended(m)')
           /\ calls[c].op = "watch" /\ status # "ok"
                 => \A m \in Number : m = calls[c].stream => Ended(m)'
           /\ UNCHANGED <<last, aborting, panicked, serverVars>>
<1> DEFINE n == calls[c].stream
           op == calls[c].op
           o == IF op = "unwatch" \/ (op = "watch" /\ status # "ok")
                THEN ObsWithout(n) ELSE client.obs
           t == CASE op = "attach" /\ status # "ok" -> TermWithout(n)
                  [] op = "detach" -> TermWithout(n)
                  [] op = "freeze" -> Nothing
                  [] OTHER -> client.term
<1>1. /\ n \in Number /\ n # Nothing /\ n \in Slot /\ client \in ClientRec /\ Idle \in CallRec
      /\ client.term \in Slot /\ client.obs \in Slot
  BY TypeParts, Numbers DEF TypeOK, ClientRec, Idle, CallRec
<1>2. calls' \in [Caller -> CallRec] /\ calls'[c] = Idle
      /\ \A d \in Caller : d # c => calls'[d] = calls[d]
  BY <1>1, TypeParts DEF Settle
<1>3. t \in Slot /\ o \in Slot
  BY <1>1, Numbers DEF TermWithout, ObsWithout
<1>4. client' = [client EXCEPT !.term = t, !.obs = o]
  BY DEF Settle
<1> HIDE DEF t
<1>5. /\ client' \in ClientRec /\ client'.closed = client.closed
      /\ client'.reading = client.reading /\ client'.obs = o
  <2> HIDE DEF o
  <2> QED BY <1>1, <1>3, <1>4 DEF ClientRec
<1>6. terms' \in TermType /\ \A m \in Number : terms'[m].closed = terms[m].closed
  <2>1. UNCHANGED terms \/ HangupTerm(n, status) \/ HangupTerm(client.term, "frozen")
    BY DEF Settle
  <2>2. "frozen" \in Status
    BY DEF Status
  <2> QED BY <1>1, <2>1, <2>2, HangupEffect, TypeParts
<1>7. /\ obs' \in ObsType
      /\ \A m \in Number : Ended(m) => Ended(m)'
      /\ \A m \in Number : obs'[m] = obs[m] \/ (m = n /\ Ended(m)')
      /\ op = "watch" /\ status # "ok" => \A m \in Number : m = n => Ended(m)'
  <2>1. CASE op = "watch" /\ status # "ok"
    <3>1. FailObs(n, status)
      BY <2>1 DEF Settle
    <3>2. obs \in ObsType
      BY TypeParts
    <3> HIDE DEF n
    <3> QED BY <1>1, <3>1, <3>2, FailEffect
  <2>2. CASE ~(op = "watch" /\ status # "ok")
    <3>1. obs' = obs
      BY <2>2 DEF Settle
    <3> QED BY <2>2, <3>1, TypeParts DEF Ended
  <2> QED BY <2>1, <2>2
<1>8. UNCHANGED <<last, aborting, panicked, serverVars>>
  BY DEF Settle
<1>9. handles' = IF status = "ok" /\ op \in {"attach", "watch"}
                 THEN handles \cup {<<op, n>>} ELSE handles
  BY DEF Settle
<1> QED BY <1>2, <1>5, <1>6, <1>7, <1>8, <1>9

\* What the server sends for a request: the response, after what precedes it.
LEMMA SendEffect ==
    ASSUME TypeOK, NEW fs \in Seq(Frame), SendAll(fs)
    PROVE  /\ toClient' \in Seq(Frame)
           /\ Frames' = IF up THEN Frames \cup Elements(fs) ELSE Frames
BY ConcatElements, TypeParts DEF SendAll, Frames

LEMMA FrameTypes ==
    /\ \A n \in Number, status \in Status :
          /\ Response(n, status) \in Frame /\ Response(n, status).kind = "response"
          /\ Response(n, status).seq = n /\ Response(n, status).status = status
          /\ Pty(n, status) \in Frame /\ Pty(n, status).kind = "pty"
          /\ Pty(n, status).seq = Nothing
          /\ WatchFrame(n, status) \in StreamFrame /\ WatchFrame(n, status).kind = "watch"
          /\ WatchFrame(n, status).stream = n /\ WatchFrame(n, status).status = status
          /\ WatchFrame(n, status).seq = Nothing
    /\ StreamFrame \subseteq Frame /\ RespFrame \subseteq Frame
BY DEF Response, Pty, WatchFrame, Frame, RespFrame, StreamFrame

LEMMA ReplyEffect ==
    ASSUME TypeOK, NEW n \in Number, NEW status \in Status, NEW pre \in Seq(StreamFrame),
           SendAll(pre \o <<Response(n, status)>>)
    PROVE  /\ toClient' \in Seq(Frame)
           /\ Frames' = IF up THEN Frames \cup Elements(pre) \cup {Response(n, status)}
                        ELSE Frames
<1>1. Response(n, status) \in Frame /\ pre \in Seq(Frame)
  BY FrameTypes
<1> DEFINE t == <<Response(n, status)>>
<1>2. t \in Seq(Frame) /\ Elements(t) = {Response(n, status)} /\ SendAll(pre \o t)
  BY <1>1, SingleElement
<1> HIDE DEF t
<1>3. pre \o t \in Seq(Frame) /\ Elements(pre \o t) = Elements(pre) \cup Elements(t)
  BY <1>1, <1>2, ConcatElements
<1> QED BY <1>2, <1>3, SendEffect

LEMMA EndEffect ==
    ASSUME TypeOK, NEW status \in Status
    PROVE  /\ EndOfWatch(status) \in Seq(StreamFrame)
           /\ Elements(EndOfWatch(status)) =
                 IF server.watching THEN {WatchFrame(server.watchStream, status)} ELSE {}
<1>1. server.watching => server.watchStream \in Number
  BY DEF TypeOK, ServerRec, Slot
<1>2. server.watching => WatchFrame(server.watchStream, status) \in StreamFrame
  BY <1>1, FrameTypes
<1>3. CASE server.watching
  <2> DEFINE w == WatchFrame(server.watchStream, status)
  <2>1. w \in StreamFrame /\ EndOfWatch(status) = <<w>>
    BY <1>2, <1>3 DEF EndOfWatch
  <2> HIDE DEF w
  <2>2. EndOfWatch(status) \in Seq(StreamFrame) /\ Elements(EndOfWatch(status)) = {w}
    BY <2>1, SingleElement
  <2> QED BY <1>3, <2>2 DEF w
<1>4. CASE ~server.watching
  BY <1>4 DEF EndOfWatch, Elements
<1> QED BY <1>3, <1>4

\* The frames that answer a request.  One that is refused changes nothing else.
LEMMA HandleFrames ==
    ASSUME TypeOK, NEW f \in ReqFrame, Refuse(f) \/ Handle(f)
    PROVE  \E status \in Status, E \in SUBSET StreamFrame :
              /\ toClient' \in Seq(Frame)
              /\ Frames' = IF up THEN Frames \cup E \cup {Response(f.seq, status)} ELSE Frames
              /\ \A g \in E : g.kind = "watch" /\ g.seq = Nothing
              /\ \/ Handle(f) /\ status = "ok"
                 \/ /\ Refuse(f) /\ status # "ok" /\ f.method \notin {"detach", "unwatch"}
                    /\ E = {}
              /\ f.method = "freeze" /\ status = "ok" /\ server.watching
                    => WatchFrame(server.watchStream, "frozen") \in E
              /\ f.method = "replace" /\ status = "ok" /\ server.watching
                    => WatchFrame(server.watchStream, "lagged") \in E
<1>1. f.seq \in Number /\ f.stream \in Number /\ {"ok", "frozen", "lagged"} \subseteq Status
  BY DEF ReqFrame, Status
<1>2. /\ <<>> \in Seq(StreamFrame) /\ Elements(<<>>) = {}
  BY DEF Elements
<1>3. \A status \in Status : SendAll(<<Response(f.seq, status)>>) =>
         /\ toClient' \in Seq(Frame)
         /\ Frames' = IF up THEN Frames \cup {} \cup {Response(f.seq, status)} ELSE Frames
  <2> SUFFICES ASSUME NEW status \in Status, SendAll(<<Response(f.seq, status)>>)
               PROVE  /\ toClient' \in Seq(Frame)
                      /\ Frames' = IF up THEN Frames \cup {Response(f.seq, status)} ELSE Frames
    OBVIOUS
  <2>1. Response(f.seq, status) \in Frame
    BY <1>1, FrameTypes
  <2> HIDE DEF Response
  <2>2. /\ <<Response(f.seq, status)>> \in Seq(Frame)
        /\ Elements(<<Response(f.seq, status)>>) = {Response(f.seq, status)}
    BY <2>1, SingleElement
  <2> QED BY <2>2, SendEffect
<1>4. CASE Refuse(f)
  <2>1. PICK status \in Refusals(f) : SendAll(<<Response(f.seq, status)>>)
    BY <1>4 DEF Refuse
  <2>2. status \in Status /\ status # "ok" /\ f.method \notin {"detach", "unwatch"}
    BY <2>1 DEF Refusals, Status
  <2> status \in Status
    BY <2>2
  <2> WITNESS status \in Status, {} \in SUBSET StreamFrame
  <2> QED BY <1>3, <1>4, <2>1, <2>2
<1>5. CASE /\ Handle(f) /\ SendAll(<<Response(f.seq, "ok")>>)
           /\ f.method \notin {"freeze", "replace"}
  <2>1. "ok" \in Status
    BY <1>1
  <2> WITNESS "ok" \in Status, {} \in SUBSET StreamFrame
  <2> QED BY <1>3, <1>5, <2>1
<1>6. CASE Handle(f) /\ StartWatch(f)
  <2>1. PICK n \in 0 .. 1 : SendAll([i \in 1 .. n |-> WatchFrame(f.stream, "ok")]
                                    \o <<Response(f.seq, "ok")>>)
    BY <1>6 DEF StartWatch
  <2> DEFINE pre == [i \in 1 .. n |-> WatchFrame(f.stream, "ok")]
  <2>2. /\ WatchFrame(f.stream, "ok") \in StreamFrame
        /\ WatchFrame(f.stream, "ok").kind = "watch" /\ WatchFrame(f.stream, "ok").seq = Nothing
    BY <1>1, FrameTypes
  <2> HIDE DEF WatchFrame
  <2>3. pre \in Seq(StreamFrame) /\ Len(pre) = n
    BY <2>2
  <2>4. \A g \in Elements(pre) : g = WatchFrame(f.stream, "ok")
    BY <2>3 DEF Elements
  <2>5. Elements(pre) \in SUBSET StreamFrame
    BY <2>2, <2>4
  <2> HIDE DEF pre
  <2>6. /\ toClient' \in Seq(Frame)
        /\ Frames' = IF up THEN Frames \cup Elements(pre) \cup {Response(f.seq, "ok")}
                     ELSE Frames
    BY <1>1, <2>1, <2>3, ReplyEffect DEF pre
  <2>7. f.method = "watch"
    BY <1>6 DEF StartWatch
  <2> QED BY <1>1, <1>6, <2>2, <2>4, <2>5, <2>6, <2>7
<1>7. CASE Handle(f) /\ (Freeze(f) \/ Replace(f))
  <2> DEFINE s == IF f.method = "freeze" THEN "frozen" ELSE "lagged"
             E == Elements(EndOfWatch(s))
  <2>1. s \in Status /\ SendAll(EndOfWatch(s) \o <<Response(f.seq, "ok")>>)
    BY <1>1, <1>7 DEF Freeze, Replace
  <2>2. server.watching => server.watchStream \in Number
    BY DEF TypeOK, ServerRec, Slot
  <2>3. /\ toClient' \in Seq(Frame)
        /\ Frames' = IF up THEN Frames \cup E \cup {Response(f.seq, "ok")} ELSE Frames
    BY <1>1, <2>1, EndEffect, ReplyEffect
  <2>4. E = IF server.watching THEN {WatchFrame(server.watchStream, s)} ELSE {}
    BY <2>1, EndEffect
  <2>5. E \in SUBSET StreamFrame /\ \A g \in E : g.kind = "watch" /\ g.seq = Nothing
    BY <2>1, <2>2, <2>4, FrameTypes
  <2> HIDE DEF E
  <2> QED BY <1>1, <1>7, <2>3, <2>4, <2>5
<1>8. Handle(f) => \/ StartWatch(f) \/ Freeze(f) \/ Replace(f)
                   \/ SendAll(<<Response(f.seq, "ok")>>) /\ f.method \notin {"freeze", "replace"}
  BY DEF Handle, AttachShell, Detach, Unwatch, Thaw
<1> QED BY <1>4, <1>5, <1>6, <1>7, <1>8

ShellType == [Number -> {"none", "running", "exited", "killed", "done"}]

LEMMA KillEffect ==
    ASSUME TypeOK, KillShell
    PROVE  /\ shells' \in ShellType
           /\ \A n \in Number : /\ shells'[n] = "running" => shells[n] = "running"
                                /\ shells[n] = "none" /\ n # server.term => shells'[n] = "none"
                                /\ n = server.term => shells'[n] # "running"
<1>1. server.term \in Slot /\ shells \in ShellType
  BY DEF TypeOK, ServerRec, ShellType
<1> QED BY <1>1, Numbers DEF KillShell, ShellType, Slot

\* What a request does to the shells and to the terminal of the server.
LEMMA HandleShells ==
    ASSUME TypeOK, NEW f \in ReqFrame, Refuse(f) \/ Handle(f)
    PROVE  /\ server' \in ServerRec /\ (server'.watching => server'.watchStream # Nothing)
           /\ shells' \in ShellType /\ frames' \in Nat
           /\ \/ /\ shells' = shells /\ server'.term = server.term
                 /\ Handle(f) /\ f.method = "detach" => server.term # f.stream
              \/ /\ f.method = "attach" /\ Handle(f) /\ server.term = Nothing
                 /\ server'.term = f.stream
                 /\ shells' = [shells EXCEPT ![f.stream] = "running"]
              \/ KillShell /\ server'.term = Nothing
<1>1. f.seq \in Number /\ f.stream \in Number /\ f.stream # Nothing
  BY Numbers DEF ReqFrame
<1>2. /\ server \in ServerRec /\ shells \in ShellType /\ frames \in Nat
      /\ server.watching => server.watchStream # Nothing
  BY DEF TypeOK, ShellType
<1>0. KillShell => shells' \in ShellType
  BY KillEffect
<1>3. f.stream \in Slot
  BY <1>1 DEF Slot
<1>4. CASE Refuse(f)
  <2>1. f.method # "detach"
    BY <1>4 DEF Refuse, Refusals
  <2>2. UNCHANGED <<server, shells, frames>>
    BY <1>4 DEF Refuse, serverVars
  <2> QED BY <1>2, <2>1, <2>2
<1>5. CASE AttachShell(f)
  <2>1. /\ f.method = "attach" /\ server.term = Nothing /\ frames' = frames
        /\ server' = [server EXCEPT !.term = f.stream] /\ Handle(f)
        /\ shells' = [shells EXCEPT ![f.stream] = "running"]
    BY <1>5 DEF AttachShell, Attached, Handle, ReqFrame
  <2>2. /\ server' \in ServerRec /\ server'.watching = server.watching
        /\ server'.watchStream = server.watchStream /\ server'.term = f.stream
    BY <1>2, <1>3, <2>1 DEF ServerRec
  <2>3. shells' \in ShellType
    BY <1>1, <1>2, <2>1 DEF ShellType
  <2> QED BY <1>2, <2>1, <2>2, <2>3
<1>6. CASE Detach(f)
  <2>1. CASE server.term = f.stream
    <3>1. KillShell /\ server' = [server EXCEPT !.term = Nothing] /\ frames' = frames
      BY <1>6, <2>1 DEF Detach
    <3>2. /\ server' \in ServerRec /\ server'.watching = server.watching
          /\ server'.watchStream = server.watchStream /\ server'.term = Nothing
      BY <1>2, <3>1, Numbers DEF ServerRec
    <3> QED BY <1>2, <1>0, <3>1, <3>2
  <2>2. CASE server.term # f.stream
    <3>1. UNCHANGED <<server, shells, frames>>
      BY <1>6, <2>2 DEF Detach
    <3> QED BY <1>2, <2>2, <3>1
  <2> QED BY <2>1, <2>2
<1>7. CASE StartWatch(f)
  <2>1. /\ f.method = "watch" /\ shells' = shells /\ frames' \in Nat
        /\ server' = [server EXCEPT !.watching = TRUE, !.watchStream = f.stream, !.poll = TRUE]
    BY <1>2, <1>7 DEF StartWatch
  <2>2. server' \in ServerRec /\ server'.watchStream = f.stream /\ server'.term = server.term
    BY <1>2, <1>3, <2>1 DEF ServerRec
  <2> QED BY <1>1, <1>2, <2>1, <2>2
<1>8. CASE Unwatch(f) \/ Replace(f)
  <2>1. /\ f.method # "detach" /\ shells' = shells /\ frames' = frames
        /\ \/ server' = server
           \/ server' = [server EXCEPT !.watching = FALSE, !.watchStream = Nothing]
    BY <1>8 DEF Unwatch, Replace
  <2>2. [server EXCEPT !.watching = FALSE, !.watchStream = Nothing] \in ServerRec
    BY <1>2, Numbers DEF ServerRec
  <2>3. /\ [server EXCEPT !.watching = FALSE, !.watchStream = Nothing].term = server.term
        /\ [server EXCEPT !.watching = FALSE, !.watchStream = Nothing].watching = FALSE
    BY <1>2 DEF ServerRec
  <2> QED BY <1>2, <2>1, <2>2, <2>3
<1>9. CASE Freeze(f)
  <2>1. /\ KillShell /\ frames' = frames
        /\ server' = [server EXCEPT !.frozen = TRUE, !.term = Nothing, !.poll = FALSE,
                                    !.watching = FALSE, !.watchStream = Nothing]
    BY <1>9 DEF Freeze
  <2>2. server' \in ServerRec /\ server'.watching = FALSE /\ server'.term = Nothing
    BY <1>2, <2>1, Numbers DEF ServerRec
  <2> QED BY <1>2, <1>0, <2>1, <2>2
<1>10. CASE Thaw(f)
  <2>1. /\ f.method # "detach" /\ shells' = shells /\ frames' = frames
        /\ server' = [server EXCEPT !.frozen = FALSE]
    BY <1>10 DEF Thaw
  <2>2. /\ server' \in ServerRec /\ server'.watching = server.watching
        /\ server'.watchStream = server.watchStream /\ server'.term = server.term
    BY <1>2, <2>1 DEF ServerRec
  <2> QED BY <1>2, <2>1, <2>2
<1> QED BY <1>4, <1>5, <1>6, <1>7, <1>8, <1>9, <1>10 DEF Handle

\* What a request does to the observation of the server.
LEMMA HandleWatch ==
    ASSUME TypeOK, NEW f \in ReqFrame, Handle(f)
    PROVE  /\ f.method = "watch" => server'.watching /\ server'.watchStream = f.stream
                                    /\ ~server.watching
           /\ server.watching =>
                 \/ server'.watching /\ server'.watchStream = server.watchStream
                 \/ f.method = "unwatch" /\ f.stream = server.watchStream
                 \/ f.method \in {"freeze", "replace"}
<1>1. server \in ServerRec
  BY DEF TypeOK
<1>2. CASE AttachShell(f) \/ Detach(f) \/ Thaw(f)
  <2>1. /\ f.method \in {"attach", "detach", "thaw"}
        /\ \/ server' = server \/ server' = [server EXCEPT !.term = f.stream]
           \/ server' = [server EXCEPT !.term = Nothing]
           \/ server' = [server EXCEPT !.frozen = FALSE]
    BY <1>2 DEF AttachShell, Attached, Detach, Thaw
  <2>2. server'.watching = server.watching /\ server'.watchStream = server.watchStream
    BY <1>1, <2>1 DEF ServerRec
  <2> QED BY <2>1, <2>2
<1>3. CASE StartWatch(f)
  <2>1. /\ f.method = "watch" /\ ~server.watching
        /\ server' = [server EXCEPT !.watching = TRUE, !.watchStream = f.stream, !.poll = TRUE]
    BY <1>3 DEF StartWatch
  <2>2. server'.watching = TRUE /\ server'.watchStream = f.stream
    BY <1>1, <2>1 DEF ServerRec
  <2> QED BY <2>1, <2>2
<1>4. CASE Unwatch(f)
  BY <1>4 DEF Unwatch
<1>5. CASE Freeze(f) \/ Replace(f)
  BY <1>5 DEF Freeze, Replace
<1> QED BY <1>2, <1>3, <1>4, <1>5 DEF Handle

\* The request that is served is the only one of its number.
LEMMA ServeQueue ==
    ASSUME TypeOK, InTurn, Serve
    PROVE  \E f \in ReqFrame :
              /\ f \in Requests /\ (Refuse(f) \/ Handle(f))
              /\ toServer' \in Seq(ReqFrame) /\ Requests' \subseteq Requests
              /\ \A g \in Requests : g = f \/ g \in Requests'
              /\ \A g \in Requests' : g.seq # f.seq
              /\ \A i, j \in 1 .. Len(toServer') : toServer'[i].seq = toServer'[j].seq => i = j
<1> DEFINE f == Head(toServer)
<1>1. toServer \in Seq(ReqFrame) /\ toServer # <<>> /\ toServer' = Tail(toServer)
  BY TypeParts DEF Serve
<1>2. /\ toServer' \in Seq(ReqFrame) /\ f \in ReqFrame /\ f \in Requests
      /\ Requests = Requests' \cup {f}
      /\ Len(toServer') = Len(toServer) - 1 /\ Len(toServer) \in Nat /\ Len(toServer) >= 1
      /\ \A i \in 1 .. Len(toServer) - 1 : toServer'[i] = toServer[i + 1]
      /\ f = toServer[1]
  BY <1>1, TailElements DEF Requests
<1>3. \A i, j \in 1 .. Len(toServer) : toServer[i].seq = toServer[j].seq => i = j
  BY DEF InTurn
<1>4. \A i \in 1 .. Len(toServer) - 1 : i + 1 \in 1 .. Len(toServer) /\ i + 1 # 1
  BY <1>2
<1>5. 1 \in 1 .. Len(toServer)
  BY <1>2
<1>6. \A g \in Requests' : g.seq # f.seq
  <2> SUFFICES ASSUME NEW i \in 1 .. Len(toServer')
               PROVE  toServer'[i].seq # f.seq
    BY DEF Requests, Elements
  <2>1. i \in 1 .. Len(toServer) - 1
    BY <1>2
  <2>2. toServer'[i] = toServer[i + 1] /\ i + 1 \in 1 .. Len(toServer) /\ i + 1 # 1
    BY <1>2, <1>4, <2>1
  <2> QED BY <1>2, <1>3, <1>5, <2>2
<1>7. \A i, j \in 1 .. Len(toServer') : toServer'[i].seq = toServer'[j].seq => i = j
  <2> SUFFICES ASSUME NEW i \in 1 .. Len(toServer') , NEW j \in 1 .. Len(toServer'),
                      toServer'[i].seq = toServer'[j].seq
               PROVE  i = j
    OBVIOUS
  <2>1. i \in 1 .. Len(toServer) - 1 /\ j \in 1 .. Len(toServer) - 1
    BY <1>2
  <2>2. i + 1 = j + 1
    BY <1>2, <1>3, <1>4, <2>1
  <2> QED BY <1>2, <2>1, <2>2
<1>8. Refuse(f) \/ Handle(f)
  BY DEF Serve
<1> HIDE DEF f
<1> QED BY <1>2, <1>6, <1>7, <1>8

\* A call begins.
Begins(c, op, n) ==
    /\ Begin(c, op, n)
    /\ op \in {"attach", "watch", "freeze", "thaw", "replace"} => n = Nothing
    /\ op = "detach" => <<"attach", n>> \in handles
    /\ op = "unwatch" => <<"watch", n>> \in handles /\ \A m \in Number : m = n => Ended(m)'
    /\ IF op = "watch" THEN client.obs = Nothing /\ client'.obs = last + 1
       ELSE client'.obs = client.obs
    /\ client'.closed = client.closed /\ client'.reading = client.reading
    /\ client' \in ClientRec /\ terms' \in TermType /\ obs' \in ObsType
    /\ \A m \in Number : terms'[m].closed => terms[m].closed \/ (op = "detach" /\ m = n)
    /\ \A m \in Number : obs'[m].failed = obs[m].failed \/ Ended(m)'
    /\ \A m \in Number : Ended(m) => Ended(m)'

LEMMA BeginSteps ==
    ASSUME TypeOK, NEW c \in Caller,
           \/ Attach(c) \/ Watch(c) \/ (\E n \in Number : CloseTerm(c, n) \/ CloseObs(c, n))
           \/ \E op \in Ops : Plain(c, op)
    PROVE  \E op \in Methods, n \in 0 .. last : Begins(c, op, n)
<1>1. /\ client \in ClientRec /\ terms \in TermType /\ obs \in ObsType
      /\ 0 \in 0 .. last /\ last \in Nat
  BY TypeParts
<1>2. \A n, op : <<op, n>> \in handles => n \in 1 .. last /\ n \in 0 .. last /\ n \in Number
  BY TypeParts, Numbers DEF TypeOK
<1>3. CASE Attach(c)
  <2>1. Begin(c, "attach", Nothing) /\ client' = [client EXCEPT !.term = last + 1]
        /\ UNCHANGED <<terms, obs>>
    BY <1>3 DEF Attach
  <2>2. last + 1 \in Slot
    BY <1>1, <2>1, BeginEffect DEF Nothing, Slot
  <2>3. /\ client' \in ClientRec /\ client'.obs = client.obs
        /\ client'.closed = client.closed /\ client'.reading = client.reading
    BY <1>1, <2>1, <2>2 DEF ClientRec
  <2>4. Begins(c, "attach", Nothing)
    BY <1>1, <2>1, <2>3 DEF Begins, Ended
  <2> QED BY <1>1, <2>4 DEF Nothing, Methods
<1>4. CASE Watch(c)
  <2>1. Begin(c, "watch", Nothing) /\ client' = [client EXCEPT !.obs = last + 1]
        /\ UNCHANGED <<terms, obs>> /\ client.obs = Nothing
    BY <1>4 DEF Watch
  <2>2. last + 1 \in Slot
    BY <1>1, <2>1, BeginEffect DEF Nothing, Slot
  <2>3. /\ client' \in ClientRec /\ client'.obs = last + 1
        /\ client'.closed = client.closed /\ client'.reading = client.reading
    BY <1>1, <2>1, <2>2 DEF ClientRec
  <2>4. Begins(c, "watch", Nothing)
    BY <1>1, <2>1, <2>3 DEF Begins, Ended
  <2> QED BY <1>1, <2>4 DEF Nothing, Methods
<1>5. ASSUME NEW n \in Number, CloseTerm(c, n)
      PROVE  \E op \in Methods, k \in 0 .. last : Begins(c, op, k)
  <2>1. Begin(c, "detach", n) /\ UNCHANGED <<client, obs>> /\ <<"attach", n>> \in handles
        /\ terms' = [terms EXCEPT ![n].closed = TRUE]
    BY <1>5 DEF CloseTerm
  <2>2. terms' \in TermType /\ \A m \in Number : m # n => terms'[m] = terms[m]
    BY <1>1, <2>1 DEF TermType
  <2>3. Begins(c, "detach", n)
    BY <1>1, <2>1, <2>2 DEF Begins, Ended
  <2> QED BY <1>2, <2>1, <2>3 DEF Methods
<1>6. ASSUME NEW n \in Number, CloseObs(c, n)
      PROVE  \E op \in Methods, k \in 0 .. last : Begins(c, op, k)
  <2>1. Begin(c, "unwatch", n) /\ UNCHANGED <<client, terms>> /\ <<"watch", n>> \in handles
        /\ FailObs(n, "closed")
    BY <1>6 DEF CloseObs
  <2>2. n \in Slot /\ "closed" \in Status /\ n # Nothing
    BY Numbers DEF Status
  <2>3. /\ obs' \in ObsType /\ Ended(n)' /\ \A m \in Number : Ended(m) => Ended(m)'
        /\ \A m \in Number : m # n => obs'[m] = obs[m]
    BY <1>1, <2>1, <2>2, FailEffect
  <2>4. Begins(c, "unwatch", n)
    BY <1>1, <2>1, <2>3 DEF Begins
  <2> QED BY <1>2, <2>1, <2>4 DEF Methods
<1>7. ASSUME NEW op \in Ops, Plain(c, op)
      PROVE  \E o \in Methods, k \in 0 .. last : Begins(c, o, k)
  <2>1. Begin(c, op, Nothing) /\ UNCHANGED <<client, terms, obs>>
        /\ op \in {"freeze", "thaw", "replace"}
    BY <1>7 DEF Plain
  <2>2. Begins(c, op, Nothing)
    BY <1>1, <2>1 DEF Begins, Ended
  <2> QED BY <1>1, <2>1, <2>2 DEF Nothing, Methods
<1> QED BY <1>3, <1>4, <1>5, <1>6, <1>7

\* A call ends: it could not be sent, has its answer, or its context is done.
Settles(c, status) ==
    /\ Busy(c) /\ Settle(c, status)
    /\ \/ calls[c].pc = "send" /\ ~Usable /\ status = "unavailable"
          /\ UNCHANGED <<pending, answer, expired, linkVars>>
       \/ calls[c].pc = "wait" /\ answer[calls[c].seq] = status
          /\ answer' = [answer EXCEPT ![calls[c].seq] = "empty"]
          /\ UNCHANGED <<pending, expired, linkVars>>
       \/ calls[c].pc = "wait" /\ calls[c].op # "detach" /\ status = "canceled"
          /\ expired' = expired \cup {calls[c].seq} /\ pending' = pending \ {calls[c].seq}
          /\ UNCHANGED <<answer, linkVars>>

LEMMA SettleSteps ==
    ASSUME TypeOK, NEW c \in Caller,
           Return(c) \/ Expire(c) \/ (Send(c) /\ (Closed \/ ~up))
    PROVE  \E status \in Status : Settles(c, status)
<1>1. CASE Return(c)
  <2>1. /\ calls[c].pc = "wait" /\ answer[calls[c].seq] # "empty"
        /\ Settle(c, answer[calls[c].seq])
        /\ answer' = [answer EXCEPT ![calls[c].seq] = "empty"]
        /\ UNCHANGED <<pending, expired, linkVars>>
    BY <1>1 DEF Return
  <2>2. calls[c].seq \in Number
    BY <2>1, TypeParts DEF TypeOK, Busy
  <2>3. answer[calls[c].seq] \in Status
    BY <2>1, <2>2, TypeParts
  <2> QED BY <2>1, <2>3 DEF Settles, Busy
<1>2. CASE Expire(c)
  <2>1. "canceled" \in Status /\ Settles(c, "canceled")
    BY <1>2 DEF Expire, Settles, Busy, Status
  <2> QED BY <2>1
<1>3. CASE Send(c) /\ (Closed \/ ~up)
  <2>1. "unavailable" \in Status /\ Settles(c, "unavailable")
    BY <1>3 DEF Send, Settles, Busy, Status, Closed, Usable
  <2> QED BY <2>1
<1> QED BY <1>1, <1>2, <1>3

\* The client reads a frame.
Reads(f) ==
    /\ f \in Frames /\ f \in Frame
    /\ toClient' \in Seq(Frame) /\ Frames = Frames' \cup {f}
    /\ IF f.kind = "response" /\ f.seq \in pending
       THEN answer' = [answer EXCEPT ![f.seq] = f.status] /\ pending' = pending \ {f.seq}
       ELSE UNCHANGED <<answer, pending>>
    /\ client' \in ClientRec /\ terms' \in TermType /\ obs' \in ObsType
    /\ client'.closed = client.closed /\ client'.reading = client.reading
    /\ \A m \in Number : terms'[m].closed = terms[m].closed
    /\ \A m \in Number : obs'[m].failed = obs[m].failed \/ Ended(m)'
    /\ \A m \in Number : Ended(m) => Ended(m)'
    /\ \A m \in Number : client.obs = m => client'.obs = m \/ Ended(m)'
    /\ \A m \in Number : f.kind = "watch" /\ f.status # "ok" /\ f.stream = m /\ client.obs = m
          => Ended(m)'
    /\ aborting' \subseteq Number /\ \A m \in aborting' : m \in aborting \/ Ended(m)'
    /\ (up' => up) /\ ~panicked
    /\ UNCHANGED <<last, calls, handles, expired, serverVars, toServer, frames>>

LEMMA ReadSteps == ASSUME TypeOK, ClientRecv PROVE \E f \in Frame : Reads(f)
<1> DEFINE f == Head(toClient)
<1>1. /\ f \in Frame /\ f \in Frames /\ toClient' \in Seq(Frame) /\ Frames = Frames' \cup {f}
  BY TailElements, TypeParts DEF ClientRecv, Frames
<1>2. UNCHANGED <<last, calls, handles, expired, serverVars, toServer, frames>> /\ ~panicked
  BY DEF ClientRecv
<1>3. /\ client \in ClientRec /\ terms \in TermType /\ obs \in ObsType /\ aborting \subseteq Number
  BY TypeParts DEF TypeOK
<1>4. RecvResponse(f) \/ RecvPty(f) \/ RecvWatch(f)
  BY DEF ClientRecv
<1> HIDE DEF f
<1>5. CASE RecvResponse(f)
  <2>1. /\ f.kind = "response" /\ UNCHANGED <<client, terms, obs, aborting, panicked, up>>
        /\ IF f.seq \in pending
           THEN answer' = [answer EXCEPT ![f.seq] = f.status] /\ pending' = pending \ {f.seq}
           ELSE UNCHANGED <<answer, pending>>
    BY <1>5 DEF RecvResponse, Answered
  <2>2. Reads(f)
    BY <1>1, <1>2, <1>3, <2>1 DEF Reads, Ended
  <2> QED BY <1>1, <2>2
<1>6. CASE RecvPty(f)
  <2>1. /\ f.kind = "pty" /\ UNCHANGED <<client, pending, answer, obs, aborting, panicked, up>>
        /\ UNCHANGED terms \/ HangupTerm(f.stream, f.status)
    BY <1>6 DEF RecvPty
  <2>2. f.stream \in Slot /\ f.status \in Status
    BY <1>1, <2>1, Numbers DEF Frame, StreamFrame, RespFrame
  <2>3. terms' \in TermType /\ \A m \in Number : terms'[m].closed = terms[m].closed
    BY <1>3, <2>1, <2>2, HangupEffect
  <2>4. Reads(f)
    BY <1>1, <1>2, <1>3, <2>1, <2>3 DEF Reads, Ended
  <2> QED BY <1>1, <2>4
<1>7. CASE RecvWatch(f)
  <2>1. f.kind = "watch" /\ UNCHANGED <<pending, answer, terms>>
    BY <1>7 DEF RecvWatch
  <2>2. /\ f.stream \in Slot /\ f.stream \in Number /\ f.stream # Nothing
        /\ f.status \in Status /\ "lagged" \in Status
    BY <1>1, <2>1, Numbers DEF Frame, StreamFrame, RespFrame, Status
  <2>3. CASE UNCHANGED <<client, obs, aborting>> /\ (f.stream # client.obs \/ f.status = "ok")
             /\ (up' = up \/ up' = FALSE)
    <3>1. up' => up
      <4>1. CASE up' = up
        BY <4>1
      <4>2. CASE up' = FALSE
        BY <4>2
      <4> QED BY <2>3, <4>1, <4>2
    <3>2. Reads(f)
      BY <1>1, <1>2, <1>3, <2>1, <2>3, <3>1 DEF Reads, Ended
    <3> QED BY <1>1, <3>2
  <2>4. CASE /\ obs' = [obs EXCEPT ![f.stream].queue = @ + 1] /\ f.status = "ok"
             /\ UNCHANGED <<client, aborting, panicked, up>>
    <3>1. /\ obs' \in ObsType /\ \A m \in Number : obs'[m].failed = obs[m].failed
      BY <1>3, <2>2, <2>4 DEF ObsType
    <3>2. Reads(f)
      BY <1>1, <1>2, <1>3, <2>1, <2>4, <3>1 DEF Reads, Ended
    <3> QED BY <1>1, <3>2
  <2>5. CASE /\ client' = [client EXCEPT !.obs = Nothing] /\ f.stream = client.obs
             /\ FailObs(f.stream, f.status) \/ FailObs(f.stream, "lagged")
             /\ aborting' \in {aborting, aborting \cup {f.stream}}
             /\ UNCHANGED <<panicked, up>>
    <3>1. /\ obs' \in ObsType /\ \A m \in Number : Ended(m) => Ended(m)'
          /\ \A m \in Number : m # f.stream => obs'[m] = obs[m]
          /\ \A m \in Number : m = f.stream => Ended(m)'
      <4>1. PICK s \in Status : FailObs(f.stream, s)
        BY <2>2, <2>5
      <4> QED BY <1>3, <2>2, <4>1, FailEffect
    <3>2. /\ client' \in ClientRec /\ client'.obs = Nothing
          /\ client'.closed = client.closed /\ client'.reading = client.reading
      BY <1>3, <2>5, Numbers DEF ClientRec
    <3>3. aborting' \subseteq Number /\ \A m \in aborting' : m \in aborting \/ m = f.stream
      BY <1>3, <2>2, <2>5
    <3>4. Reads(f)
      BY <1>1, <1>2, <1>3, <2>1, <2>2, <2>5, <3>1, <3>2, <3>3 DEF Reads
    <3> QED BY <1>1, <3>4
  <2> QED BY <1>7, <2>3, <2>4, <2>5 DEF RecvWatch
<1> QED BY <1>4, <1>5, <1>6, <1>7

\* Hangup and failAll.
FailsAll ==
    /\ client' \in ClientRec /\ client'.closed = TRUE /\ client'.obs = Nothing
    /\ client'.reading = client.reading \/ ~up
    /\ pending' = {} /\ terms' \in TermType /\ obs' \in ObsType
    /\ \E status \in Status \ {"ok"} : answer' = FailedAnswers(status)
    /\ \A m \in Number : terms'[m].closed = terms[m].closed
    /\ \A m \in Number : obs'[m].failed = obs[m].failed \/ Ended(m)'
    /\ \A m \in Number : Ended(m) => Ended(m)'
    /\ \A m \in Number : client.obs = m => Ended(m)'
    /\ UNCHANGED toClient \/ (toClient' = <<>> /\ ~up)
    /\ UNCHANGED <<last, calls, handles, aborting, expired, panicked, serverVars,
                   up, toServer, frames>>

LEMMA FailSteps == ASSUME TypeOK, Hangup \/ ClientLost PROVE FailsAll
<1>1. PICK status \in {"revoked", "unavailable"}, hangup \in {"revoked", "closed"},
           reading \in BOOLEAN :
         FailEverything(status, hangup, reading) /\ (reading = client.reading \/ ~up)
  BY TypeParts DEF Hangup, ClientLost, ClientRec
<1>2. /\ status \in Status \ {"ok"} /\ hangup \in Status
      /\ client.term \in Slot /\ client.obs \in Slot
      /\ terms \in TermType /\ obs \in ObsType /\ client \in ClientRec
  BY TypeParts DEF ClientRec, Status
<1>3. /\ client' = [term |-> Nothing, obs |-> Nothing, closed |-> TRUE, reading |-> reading]
      /\ answer' = FailedAnswers(status) /\ pending' = {}
      /\ HangupTerm(client.term, hangup) /\ FailObs(client.obs, hangup)
      /\ UNCHANGED <<last, calls, handles, aborting, expired, panicked, serverVars>>
  BY <1>1 DEF FailEverything
<1>4. terms' \in TermType /\ \A m \in Number : terms'[m].closed = terms[m].closed
  BY <1>2, <1>3, HangupEffect
<1>5. /\ obs' \in ObsType /\ \A m \in Number : m # client.obs => obs'[m] = obs[m]
      /\ \A m \in Number : Ended(m) => Ended(m)'
      /\ \A m \in Number : m = client.obs => Ended(m)'
  BY <1>2, <1>3, FailEffect, Numbers
<1>6. client' \in ClientRec /\ client'.closed = TRUE /\ client'.obs = Nothing
      /\ client'.reading = reading
  BY <1>3, Numbers DEF ClientRec
<1>7. UNCHANGED <<up, toServer, frames>> /\ (UNCHANGED toClient \/ (toClient' = <<>> /\ ~up))
  BY DEF Hangup, ClientLost, linkVars
<1> QED BY <1>1, <1>2, <1>3, <1>4, <1>5, <1>6, <1>7 DEF FailsAll

\* A request goes out.
Sends(c) ==
    /\ calls[c].pc = "send" /\ Usable
    /\ pending' = pending \cup {calls[c].seq}
    /\ toServer' = Append(toServer, Request(calls[c].op, calls[c].seq, calls[c].stream))
    /\ calls' = [calls EXCEPT ![c].pc = "wait"]
    /\ UNCHANGED <<client, last, answer, terms, obs, handles, aborting,
                   expired, panicked, serverVars, up, toClient, frames>>

LEMMA SendSteps ==
    ASSUME NEW c \in Caller, Send(c), ~(Closed \/ ~up)
    PROVE  Sends(c)
BY DEF Send, Sends, Usable, Closed, SendRequest

LEMMA SendsEffect ==
    ASSUME TypeOK, NEW c \in Caller, Sends(c)
    PROVE  /\ calls' \in [Caller -> CallRec]
           /\ calls'[c].pc = "wait" /\ calls'[c].op = calls[c].op
           /\ calls'[c].seq = calls[c].seq /\ calls'[c].stream = calls[c].stream
           /\ \A d \in Caller : d # c => calls'[d] = calls[d]
           /\ calls[c].seq \in 1 .. last /\ calls[c].stream \in 1 .. last /\ calls[c].op \in Methods
           /\ toServer' \in Seq(ReqFrame)
           /\ \E r \in ReqFrame :
                 /\ r.seq = calls[c].seq /\ r.stream = calls[c].stream /\ r.method = calls[c].op
                 /\ toServer' = Append(toServer, r) /\ Requests' = Requests \cup {r}
<1>1. calls[c].seq \in 1 .. last /\ calls[c].stream \in 1 .. last /\ calls[c].op \in Methods
  BY DEF TypeOK, Sends, Busy
<1>2. calls \in [Caller -> CallRec] /\ 1 .. last \subseteq Number /\ toServer \in Seq(ReqFrame)
  BY TypeParts
<1>3. /\ calls' \in [Caller -> CallRec]
      /\ calls'[c].pc = "wait" /\ calls'[c].op = calls[c].op
      /\ calls'[c].seq = calls[c].seq /\ calls'[c].stream = calls[c].stream
      /\ \A d \in Caller : d # c => calls'[d] = calls[d]
  BY <1>2 DEF Sends, CallRec
<1> DEFINE r == Request(calls[c].op, calls[c].seq, calls[c].stream)
<1>4. /\ r \in ReqFrame
      /\ r.seq = calls[c].seq /\ r.stream = calls[c].stream /\ r.method = calls[c].op
  BY <1>1, <1>2 DEF ReqFrame, Request
<1>5. toServer' = Append(toServer, r)
  BY DEF Sends
<1> HIDE DEF r
<1>6. toServer' \in Seq(ReqFrame) /\ Requests' = Requests \cup {r}
  BY <1>2, <1>4, <1>5, AppendElements DEF Requests
<1> QED BY <1>1, <1>3, <1>4, <1>5, <1>6

\* The caller takes an event out of the queue of its observation.
Takes ==
    /\ obs' \in ObsType /\ \A m \in Number : obs'[m].failed = obs[m].failed
    /\ UNCHANGED <<client, last, pending, answer, calls, terms, handles,
                   aborting, expired, panicked, serverVars, linkVars>>

LEMMA NextSteps == ASSUME TypeOK, NEW n \in Number, ObsNext(n) PROVE Takes
<1>1. obs \in ObsType /\ obs[n].queue \in Nat /\ obs[n].queue > 0
  BY TypeParts DEF ObsNext, ObsType
<1>2. obs[n].queue - 1 \in Nat
  BY <1>1
<1>3. obs' = [obs EXCEPT ![n].queue = obs[n].queue - 1]
  BY DEF ObsNext
<1>4. obs' \in ObsType /\ \A m \in Number : obs'[m].failed = obs[m].failed
  BY <1>1, <1>2, <1>3 DEF ObsType
<1> QED BY <1>4 DEF Takes, ObsNext

\* An aborted observation sends its unwatch, or cannot.
Aborts(n) ==
    /\ n \in aborting /\ last + 1 \in Number /\ last' = last + 1 /\ aborting' \subseteq aborting
    /\ \/ UNCHANGED <<pending, toServer>>
       \/ /\ pending' = pending \cup {last + 1} /\ toServer' \in Seq(ReqFrame)
          /\ \E r \in ReqFrame :
                /\ r.seq = last + 1 /\ r.stream = n /\ r.method = "unwatch"
                /\ toServer' = Append(toServer, r) /\ Requests' = Requests \cup {r}
    /\ UNCHANGED <<client, answer, calls, terms, obs, handles, expired, panicked,
                   serverVars, up, toClient, frames>>

LEMMA AbortSteps == ASSUME TypeOK, NEW n \in Number, AbortUnwatch(n) PROVE Aborts(n)
<1>1. last \in Nat /\ last < MaxCalls
  BY TypeParts, AgentAssumption DEF AbortUnwatch, CallBound
<1>2. last + 1 \in Number
  BY <1>1, Numbers DEF Number
<1>3. /\ n \in aborting /\ last' = last + 1 /\ aborting' \subseteq aborting
      /\ UNCHANGED <<client, answer, calls, terms, obs, handles, expired, panicked,
                     serverVars, up, toClient, frames>>
  BY DEF AbortUnwatch
<1>4. CASE UNCHANGED <<pending, toServer>>
  BY <1>2, <1>3, <1>4 DEF Aborts
<1>5. CASE /\ pending' = pending \cup {last + 1}
           /\ toServer' = Append(toServer, Request("unwatch", last + 1, n))
  <2> DEFINE r == Request("unwatch", last + 1, n)
  <2>1. r \in ReqFrame /\ r.seq = last + 1 /\ r.stream = n /\ r.method = "unwatch"
    BY <1>2 DEF ReqFrame, Request, Methods
  <2>2. toServer' = Append(toServer, r) /\ toServer \in Seq(ReqFrame)
    BY <1>5, TypeParts
  <2> HIDE DEF r
  <2>3. toServer' \in Seq(ReqFrame) /\ Requests' = Requests \cup {r}
    BY <2>1, <2>2, AppendElements DEF Requests
  <2> QED BY <1>2, <1>3, <1>5, <2>1, <2>2, <2>3 DEF Aborts
<1> QED BY <1>4, <1>5 DEF AbortUnwatch, SendRequest

\* The server serves a request: what it sends, and what becomes of the shells
\* and of the observation.
Serves(f, status, E) ==
    /\ f \in Requests
    /\ toServer' \in Seq(ReqFrame) /\ Requests' \subseteq Requests
    /\ \A g \in Requests : g = f \/ g \in Requests'
    /\ \A g \in Requests' : g.seq # f.seq
    /\ \A i, j \in 1 .. Len(toServer') : toServer'[i].seq = toServer'[j].seq => i = j
    /\ toClient' \in Seq(Frame)
    /\ Frames' = IF up THEN Frames \cup E \cup {Response(f.seq, status)} ELSE Frames
    /\ \A g \in E : g.kind = "watch" /\ g.seq = Nothing
    /\ server' \in ServerRec /\ (server'.watching => server'.watchStream # Nothing)
    /\ shells' \in ShellType /\ frames' \in Nat
    /\ \/ /\ shells' = shells /\ server'.term = server.term
          /\ f.method = "detach" => server.term # f.stream
       \/ /\ f.method = "attach" /\ status = "ok" /\ server'.term = f.stream
          /\ server.term = Nothing
          /\ shells' = [shells EXCEPT ![f.stream] = "running"]
       \/ KillShell /\ server'.term = Nothing
    /\ f.method = "watch" /\ status = "ok" => server'.watching /\ server'.watchStream = f.stream
    /\ up => \A n \in Number : Watched(n) => Watched(n)' \/ (f.method = "unwatch" /\ f.stream = n)
    /\ UNCHANGED <<clientVars, up>>

LEMMA ServeSteps ==
    ASSUME TypeOK, InTurn, Serve
    PROVE  \E f \in ReqFrame, status \in Status, E \in SUBSET StreamFrame : Serves(f, status, E)
<1>1. PICK f \in ReqFrame :
              /\ f \in Requests /\ (Refuse(f) \/ Handle(f))
              /\ toServer' \in Seq(ReqFrame) /\ Requests' \subseteq Requests
              /\ \A g \in Requests : g = f \/ g \in Requests'
              /\ \A g \in Requests' : g.seq # f.seq
              /\ \A i, j \in 1 .. Len(toServer') : toServer'[i].seq = toServer'[j].seq => i = j
  BY ServeQueue
<1>2. PICK status \in Status, E \in SUBSET StreamFrame :
              /\ toClient' \in Seq(Frame)
              /\ Frames' = IF up THEN Frames \cup E \cup {Response(f.seq, status)} ELSE Frames
              /\ \A g \in E : g.kind = "watch" /\ g.seq = Nothing
              /\ \/ Handle(f) /\ status = "ok"
                 \/ /\ Refuse(f) /\ status # "ok" /\ f.method \notin {"detach", "unwatch"}
                    /\ E = {}
              /\ f.method = "freeze" /\ status = "ok" /\ server.watching
                    => WatchFrame(server.watchStream, "frozen") \in E
              /\ f.method = "replace" /\ status = "ok" /\ server.watching
                    => WatchFrame(server.watchStream, "lagged") \in E
  BY <1>1, HandleFrames
<1>3. UNCHANGED <<clientVars, up>>
  BY DEF Serve
<1>4. f.stream \in Number /\ f.stream # Nothing
  BY Numbers DEF ReqFrame
<1>5. /\ server' \in ServerRec /\ (server'.watching => server'.watchStream # Nothing)
      /\ shells' \in ShellType /\ frames' \in Nat
  BY <1>1, HandleShells
<1>6. \/ /\ shells' = shells /\ server'.term = server.term
         /\ f.method = "detach" => server.term # f.stream
      \/ /\ f.method = "attach" /\ status = "ok" /\ server'.term = f.stream
         /\ server.term = Nothing
         /\ shells' = [shells EXCEPT ![f.stream] = "running"]
      \/ KillShell /\ server'.term = Nothing
  <2>1. Refuse(f) => UNCHANGED <<server, shells>>
    BY DEF Refuse, serverVars
  <2>2. CASE /\ shells' = shells /\ server'.term = server.term
             /\ Handle(f) /\ f.method = "detach" => server.term # f.stream
    BY <1>2, <2>2
  <2>3. CASE /\ f.method = "attach" /\ Handle(f) /\ server.term = Nothing
             /\ server'.term = f.stream
             /\ shells' = [shells EXCEPT ![f.stream] = "running"]
    BY <1>2, <1>4, <2>1, <2>3
  <2>4. CASE KillShell /\ server'.term = Nothing
    BY <2>4
  <2> QED BY <1>1, <2>2, <2>3, <2>4, HandleShells
<1>7. f.method = "watch" /\ status = "ok" => server'.watching /\ server'.watchStream = f.stream
  BY <1>2, HandleWatch
<1>8. ASSUME up, NEW n \in Number, Watched(n)
      PROVE  Watched(n)' \/ (f.method = "unwatch" /\ f.stream = n)
  <2>1. Frames \subseteq Frames' /\ E \subseteq Frames'
    BY <1>2, <1>8
  <2>2. CASE \E g \in Frames : g.kind = "watch" /\ g.stream = n /\ g.status # "ok"
    BY <2>1, <2>2 DEF Watched
  <2>3. CASE server.watching /\ server.watchStream = n
    <3>1. CASE Refuse(f)
      <4>1. server' = server
        BY <3>1 DEF Refuse, serverVars
      <4> QED BY <2>3, <4>1 DEF Watched
    <3>2. CASE Handle(f) /\ status = "ok"
      <4>1. \/ server'.watching /\ server'.watchStream = n
            \/ f.method = "unwatch" /\ f.stream = n
            \/ f.method \in {"freeze", "replace"}
        BY <2>3, <3>2, HandleWatch
      <4>2. CASE f.method \in {"freeze", "replace"}
        <5>1. PICK s \in {"frozen", "lagged"} : WatchFrame(n, s) \in E
          BY <1>2, <2>3, <3>2, <4>2
        <5>2. /\ WatchFrame(n, s).kind = "watch" /\ WatchFrame(n, s).stream = n
              /\ WatchFrame(n, s).status # "ok"
          BY <5>1, FrameTypes DEF Status
        <5> QED BY <2>1, <5>1, <5>2 DEF Watched
      <4> QED BY <4>1, <4>2 DEF Watched
    <3> QED BY <1>2, <3>1, <3>2
  <2> QED BY <1>8, <2>2, <2>3 DEF Watched
<1> QED BY <1>1, <1>2, <1>3, <1>5, <1>6, <1>7, <1>8 DEF Serves

\* The guest acts by itself.
Guest ==
    /\ server' \in ServerRec /\ (server'.watching => server'.watchStream # Nothing)
    /\ shells' \in ShellType /\ frames' \in Nat
    /\ UNCHANGED toServer \/ (toServer' = <<>> /\ ~up)
    /\ toClient' \in Seq(Frame) /\ Frames \subseteq Frames'
    /\ \A g \in Frames' : g \in Frames \/ (g.seq = Nothing /\ g.kind # "response")
    /\ \A n \in Number : shells'[n] = "running" =>
          shells[n] = "running" /\ (server.term = n => server'.term = n)
    /\ \A n \in Number : shells[n] = "none" => shells'[n] = "none"
    /\ \A n \in Number : server'.term = n => server.term = n /\ shells'[n] # "none"
    /\ up => \A n \in Number : Watched(n) => Watched(n)'
    /\ UNCHANGED <<clientVars, up>>

LEMMA GuestSteps ==
    ASSUME TypeOK, ShellsOK,
           \/ \E n \in Number : ShellExits(n) \/ CopyPtyEnds(n)
           \/ ServerLost \/ Poll
    PROVE  Guest
<1>1. /\ server \in ServerRec /\ shells \in ShellType /\ frames \in Nat
      /\ server.watching => server.watchStream # Nothing
      /\ toClient \in Seq(Frame) /\ server.term \in Slot
  BY DEF TypeOK, ShellType, ServerRec
<1>2. \A n \in Number : server.term = n => shells[n] # "none"
  BY DEF ShellsOK
<1>3. ASSUME NEW n \in Number, ShellExits(n) PROVE Guest
  <2>1. /\ shells[n] = "running" /\ shells' = [shells EXCEPT ![n] = "exited"]
        /\ UNCHANGED <<clientVars, server, up, toServer, toClient, frames>>
    BY <1>3 DEF ShellExits, linkVars
  <2>2. shells' \in ShellType /\ shells'[n] = "exited"
        /\ \A m \in Number : m # n => shells'[m] = shells[m]
    BY <1>1, <2>1 DEF ShellType
  <2>3. Frames' = Frames
    BY <2>1 DEF Frames
  <2>4. \A m \in Number : Watched(m) => Watched(m)'
    BY <2>1, <2>3 DEF Watched
  <2> QED BY <1>1, <1>2, <2>1, <2>2, <2>3, <2>4 DEF Guest
<1>4. ASSUME NEW n \in Number, CopyPtyEnds(n) PROVE Guest
  <2>1. PICK status \in Status : SendAll(<<Pty(n, status)>>)
    BY <1>4 DEF CopyPtyEnds, Status
  <2>2. /\ shells[n] \in {"exited", "killed"} /\ shells' = [shells EXCEPT ![n] = "done"]
        /\ server' = WithoutTerm(n) /\ UNCHANGED <<clientVars, up, toServer, frames>>
    BY <1>4 DEF CopyPtyEnds
  <2>3. /\ shells' \in ShellType /\ shells'[n] = "done"
        /\ \A m \in Number : m # n => shells'[m] = shells[m]
    BY <1>1, <2>2 DEF ShellType
  <2>4. Pty(n, status) \in Frame /\ Pty(n, status).seq = Nothing /\ Pty(n, status).kind = "pty"
    BY <2>1, FrameTypes
  <2> HIDE DEF Pty
  <2>5. <<Pty(n, status)>> \in Seq(Frame) /\ Elements(<<Pty(n, status)>>) = {Pty(n, status)}
    BY <2>4, SingleElement
  <2>6. /\ toClient' \in Seq(Frame)
        /\ Frames' = IF up THEN Frames \cup {Pty(n, status)} ELSE Frames
    BY <2>1, <2>5, SendEffect
  <2>7. /\ server' \in ServerRec /\ server'.watching = server.watching
        /\ server'.watchStream = server.watchStream
        /\ server'.term = IF server.term = n THEN Nothing ELSE server.term
    BY <1>1, <2>2, Numbers DEF WithoutTerm, ServerRec
  <2>8. \A m \in Number : Watched(m) => Watched(m)'
    BY <2>6, <2>7 DEF Watched
  <2>9. \A m \in Number : server'.term = m => server.term = m /\ m # n
    BY <2>7, Numbers
  <2> QED BY <1>1, <1>2, <2>2, <2>3, <2>4, <2>6, <2>7, <2>8, <2>9 DEF Guest
<1>5. CASE ServerLost
  <2>1. /\ ~up /\ KillShell /\ toServer' = <<>> /\ UNCHANGED <<clientVars, up, toClient, frames>>
        /\ server' = [server EXCEPT !.serving = FALSE, !.term = Nothing, !.poll = FALSE,
                                    !.watching = FALSE, !.watchStream = Nothing]
    BY <1>5 DEF ServerLost
  <2>2. server' \in ServerRec /\ server'.watching = FALSE /\ server'.term = Nothing
    BY <1>1, <2>1, Numbers DEF ServerRec
  <2>3. Frames' = Frames
    BY <2>1 DEF Frames
  <2>4. /\ shells' \in ShellType
        /\ \A n \in Number : /\ shells'[n] = "running" => shells[n] = "running" /\ server.term # n
                             /\ shells[n] = "none" => shells'[n] = "none"
    BY <1>2, <2>1, KillEffect
  <2> QED BY <1>1, <2>1, <2>2, <2>3, <2>4, Numbers DEF Guest
<1>6. CASE Poll
  <2>1. shells' = shells /\ UNCHANGED <<clientVars, up, toServer>> /\ server.watching
    BY <1>6 DEF Poll
  <2>2. server.watchStream \in Number
    BY <1>1, <2>1 DEF ServerRec, Slot
  <2>3. /\ server' \in ServerRec /\ (server'.watching => server'.watchStream # Nothing)
        /\ server'.term = server.term
    <3>1. \/ server' = server
          \/ server' = [server EXCEPT !.poll = FALSE, !.watching = FALSE, !.watchStream = Nothing]
          \/ server' = [server EXCEPT !.watching = FALSE, !.watchStream = Nothing]
      BY <1>6 DEF Poll
    <3> QED BY <1>1, <3>1, Numbers DEF ServerRec
  <2>4. frames' \in Nat
    BY <1>1, <1>6 DEF Poll
  <2>5. PICK status \in {"ok", "lagged"} :
           /\ SendAll(<<WatchFrame(server.watchStream, status)>>)
           /\ status = "ok" /\ up => server' = server
    BY <1>6 DEF Poll, EndOfWatch
  <2>6. /\ WatchFrame(server.watchStream, status) \in Frame
        /\ WatchFrame(server.watchStream, status).seq = Nothing
        /\ WatchFrame(server.watchStream, status).kind = "watch"
        /\ WatchFrame(server.watchStream, status).stream = server.watchStream
        /\ WatchFrame(server.watchStream, status).status = status
    BY <2>2, <2>5, FrameTypes DEF Status
  <2> DEFINE w == WatchFrame(server.watchStream, status)
  <2>7. w \in Frame /\ SendAll(<<w>>)
    BY <2>5, <2>6
  <2> HIDE DEF w
  <2>8. <<w>> \in Seq(Frame) /\ Elements(<<w>>) = {w}
    BY <2>7, SingleElement
  <2>9. toClient' \in Seq(Frame) /\ Frames' = IF up THEN Frames \cup {w} ELSE Frames
    BY <2>7, <2>8, SendEffect
  <2>10. up => \A m \in Number : Watched(m) => Watched(m)'
    <3> SUFFICES ASSUME up, NEW m \in Number, Watched(m) PROVE Watched(m)'
      OBVIOUS
    <3>1. CASE \E g \in Frames : g.kind = "watch" /\ g.stream = m /\ g.status # "ok"
      BY <2>9, <3>1 DEF Watched
    <3>2. CASE m = server.watchStream /\ status = "ok"
      BY <2>1, <2>5, <3>2 DEF Watched
    <3>3. CASE m = server.watchStream /\ status = "lagged"
      BY <2>6, <2>9, <3>3 DEF Watched, w
    <3> QED BY <2>5, <3>1, <3>2, <3>3 DEF Watched
  <2>11. \A g \in Frames' : g \in Frames \/ (g.seq = Nothing /\ g.kind # "response")
    BY <2>6, <2>9 DEF w
  <2>12. Frames \subseteq Frames'
    BY <2>9
  <2> QED BY <1>1, <1>2, <2>1, <2>3, <2>4, <2>9, <2>10, <2>11, <2>12 DEF Guest
<1> QED BY <1>3, <1>4, <1>5, <1>6

\* Every step of the link is one of these.
Step ==
    \/ \E c \in Caller, op \in Methods, n \in 0 .. last : Begins(c, op, n)
    \/ \E c \in Caller : Sends(c)
    \/ \E c \in Caller, status \in Status : Settles(c, status)
    \/ Takes
    \/ \E n \in Number : Aborts(n)
    \/ \E f \in Frame : Reads(f)
    \/ FailsAll
    \/ LinkDown
    \/ \E f \in ReqFrame, status \in Status, E \in SUBSET StreamFrame : Serves(f, status, E)
    \/ Guest

LEMMA StepCases == ASSUME TypeOK, InTurn, ShellsOK, Next PROVE Step
<1>1. ASSUME NEW c \in Caller, CallerStep(c) PROVE Step
  <2>1. CASE Send(c)
    BY <2>1, SendSteps, SettleSteps DEF Step
  <2>2. CASE Return(c) \/ Expire(c)
    BY <2>2, SettleSteps DEF Step
  <2>3. CASE \/ Attach(c) \/ Watch(c)
             \/ (\E n \in Number : CloseTerm(c, n) \/ CloseObs(c, n))
             \/ \E op \in Ops : Plain(c, op)
    BY <2>3, BeginSteps DEF Step
  <2> QED BY <1>1, <2>1, <2>2, <2>3 DEF CallerStep
<1>2. ASSUME NEW n \in Number, ObsNext(n) \/ AbortUnwatch(n) PROVE Step
  BY <1>2, NextSteps, AbortSteps DEF Step
<1>3. CASE ClientRecv
  BY <1>3, ReadSteps DEF Step
<1>4. CASE Hangup \/ ClientLost
  BY <1>4, FailSteps DEF Step
<1>5. CASE Serve
  BY <1>5, ServeSteps DEF Step
<1>6. CASE \/ \E n \in Number : ShellExits(n) \/ CopyPtyEnds(n)
           \/ ServerLost \/ Poll
  BY <1>6, GuestSteps DEF Step
<1> QED BY <1>1, <1>2, <1>3, <1>4, <1>5, <1>6 DEF Next, Step

----------------------------------------------------------------------------
(* The types, and the numbers of the calls.                                *)

LEMMA TypeStep == ASSUME TypeOK, Step PROVE TypeOK'
<1>0. /\ last \in Nat /\ last <= MaxCalls /\ MaxCalls \in Nat /\ pending \subseteq 1 .. last
      /\ handles \subseteq {"attach", "watch"} \X (1 .. last)
      /\ aborting \subseteq Number /\ frames \in Nat
  BY TypeParts, Numbers DEF TypeOK
<1>1. ASSUME NEW c \in Caller, NEW op \in Methods, NEW n \in 0 .. last, Begins(c, op, n)
      PROVE  TypeOK'
  <2>1. Begin(c, op, n)
    BY <1>1 DEF Begins
  <2>2. /\ last' = last + 1 /\ last' \in 0 .. MaxCalls
        /\ calls' \in [Caller -> CallRec]
        /\ calls'[c].pc = "send" /\ calls'[c].op = op /\ calls'[c].seq = last + 1
        /\ calls'[c].stream = IF n = Nothing THEN last + 1 ELSE n
        /\ \A d \in Caller : d # c => calls'[d] = calls[d]
    BY <2>1, BeginEffect
  <2>3. 1 .. last \subseteq 1 .. last' /\ last + 1 \in 1 .. last'
    BY <1>0, <2>2
  <2>4. \A d \in Caller : IF Busy(d)'
          THEN calls'[d].op \in Methods /\ calls'[d].seq \in 1 .. last'
               /\ calls'[d].stream \in 1 .. last'
          ELSE calls'[d] = Idle
    <3>1. calls'[c].stream \in 1 .. last'
      BY <1>0, <2>2, <2>3 DEF Nothing
    <3> QED BY <2>2, <2>3, <3>1 DEF TypeOK, Busy
  <2>5. pending' \subseteq 1 .. last' /\ handles' \subseteq {"attach", "watch"} \X (1 .. last')
    BY <1>0, <2>1, <2>3 DEF Begin
  <2>6. UNCHANGED <<answer, aborting, server, shells, toServer, toClient, frames>>
    BY <2>1 DEF Begin, serverVars, linkVars
  <2>7. client' \in ClientRec /\ terms' \in TermType /\ obs' \in ObsType
    BY <1>1 DEF Begins
  <2> QED BY <2>2, <2>4, <2>5, <2>6, <2>7 DEF TypeOK, TermType, ObsType
<1>2. ASSUME NEW c \in Caller, Sends(c) PROVE TypeOK'
  <2>1. \A d \in Caller : IF Busy(d)'
          THEN calls'[d].op \in Methods /\ calls'[d].seq \in 1 .. last
               /\ calls'[d].stream \in 1 .. last
          ELSE calls'[d] = Idle
    <3>1. /\ calls'[c].pc = "wait" /\ calls'[c].op \in Methods
          /\ calls'[c].seq \in 1 .. last /\ calls'[c].stream \in 1 .. last
          /\ \A d \in Caller : d # c => calls'[d] = calls[d]
      BY <1>2, SendsEffect
    <3> QED BY <3>1 DEF TypeOK, Busy
  <2>2. calls' \in [Caller -> CallRec] /\ toServer' \in Seq(ReqFrame)
    BY <1>2, SendsEffect
  <2>3. pending' \subseteq 1 .. last
    BY <1>0, <1>2, SendsEffect DEF Sends
  <2>4. UNCHANGED <<client, last, answer, terms, obs, handles, aborting,
                    server, shells, toClient, frames>>
    BY <1>2 DEF Sends, serverVars
  <2> QED BY <2>1, <2>2, <2>3, <2>4 DEF TypeOK
<1>3. ASSUME NEW c \in Caller, NEW status \in Status, Settles(c, status) PROVE TypeOK'
  <2>1. Busy(c) /\ Settle(c, status)
    BY <1>3 DEF Settles
  <2>2. calls[c].stream \in 1 .. last /\ calls[c].seq \in Number
    BY <2>1, TypeParts DEF TypeOK
  <2>3. /\ calls' \in [Caller -> CallRec] /\ client' \in ClientRec
        /\ terms' \in TermType /\ obs' \in ObsType
        /\ UNCHANGED <<last, aborting, server, shells>>
    BY <2>1, SettleEffect DEF serverVars
  <2>4. \A d \in Caller : IF Busy(d)'
          THEN calls'[d].op \in Methods /\ calls'[d].seq \in 1 .. last
               /\ calls'[d].stream \in 1 .. last
          ELSE calls'[d] = Idle
    <3>1. calls'[c] = Idle /\ \A d \in Caller : d # c => calls'[d] = calls[d]
      BY <2>1, SettleEffect
    <3> QED BY <3>1 DEF TypeOK, Busy, Idle
  <2>5. handles' \subseteq {"attach", "watch"} \X (1 .. last)
    <3>1. handles' = IF status = "ok" /\ calls[c].op \in {"attach", "watch"}
                     THEN handles \cup {<<calls[c].op, calls[c].stream>>} ELSE handles
      BY <2>1, SettleEffect
    <3> QED BY <1>0, <2>2, <3>1
  <2>6. UNCHANGED <<toServer, toClient, frames>> /\ pending' \subseteq 1 .. last
    BY <1>0, <1>3 DEF Settles, linkVars
  <2>7. answer' \in [Number -> Status \cup {"empty"}]
    <3>1. answer' = answer \/ answer' = [answer EXCEPT ![calls[c].seq] = "empty"]
      BY <1>3 DEF Settles
    <3> QED BY <2>2, <3>1, TypeParts
  <2> QED BY <2>3, <2>4, <2>5, <2>6, <2>7 DEF TypeOK, TermType, ObsType
<1>4. CASE Takes
  BY <1>4 DEF Takes, TypeOK, ObsType, serverVars, linkVars, Busy
<1>5. ASSUME NEW n \in Number, Aborts(n) PROVE TypeOK'
  <2>1. last' = last + 1 /\ last' \in 0 .. MaxCalls
    BY <1>0, <1>5 DEF Aborts, Number
  <2>2. 1 .. last \subseteq 1 .. last' /\ last + 1 \in 1 .. last'
    BY <1>0, <2>1
  <2>3. /\ UNCHANGED <<client, answer, calls, terms, obs, handles, server, shells,
                       toClient, frames>>
        /\ aborting' \subseteq Number
    BY <1>0, <1>5 DEF Aborts, serverVars
  <2>4. pending' \subseteq 1 .. last' /\ toServer' \in Seq(ReqFrame)
    BY <1>0, <1>5, <2>2, TypeParts DEF Aborts
  <2>5. handles' \subseteq {"attach", "watch"} \X (1 .. last')
    BY <1>0, <2>2, <2>3
  <2>6. \A d \in Caller : IF Busy(d)'
          THEN calls'[d].op \in Methods /\ calls'[d].seq \in 1 .. last'
               /\ calls'[d].stream \in 1 .. last'
          ELSE calls'[d] = Idle
    BY <2>2, <2>3 DEF TypeOK, Busy
  <2> QED BY <2>1, <2>3, <2>4, <2>5, <2>6 DEF TypeOK
<1>6. ASSUME NEW f \in Frame, Reads(f) PROVE TypeOK'
  <2>1. /\ client' \in ClientRec /\ terms' \in TermType /\ obs' \in ObsType
        /\ aborting' \subseteq Number /\ toClient' \in Seq(Frame)
        /\ UNCHANGED <<last, calls, handles, server, shells, toServer, frames>>
    BY <1>6 DEF Reads, serverVars
  <2>2. f.status \in Status
    BY DEF Frame, StreamFrame, RespFrame
  <2>3. answer' \in [Number -> Status \cup {"empty"}] /\ pending' \subseteq 1 .. last
    <3>1. CASE f.kind = "response" /\ f.seq \in pending
      BY <1>0, <1>6, <2>2, <3>1, TypeParts DEF Reads
    <3>2. CASE ~(f.kind = "response" /\ f.seq \in pending)
      BY <1>0, <1>6, <3>2, TypeParts DEF Reads
    <3> QED BY <3>1, <3>2
  <2> QED BY <2>1, <2>3 DEF TypeOK, TermType, ObsType, Busy
<1>7. CASE FailsAll
  <2>1. PICK status \in Status : answer' = FailedAnswers(status)
    BY <1>7 DEF FailsAll
  <2>2. answer' \in [Number -> Status \cup {"empty"}]
    BY <2>1, TypeParts DEF FailedAnswers
  <2>3. /\ client' \in ClientRec /\ terms' \in TermType /\ obs' \in ObsType /\ pending' = {}
        /\ UNCHANGED <<last, calls, handles, aborting, server, shells, toServer, frames>>
    BY <1>7 DEF FailsAll, serverVars
  <2>4. toClient' \in Seq(Frame)
    <3>1. <<>> \in Seq(Frame) /\ toClient \in Seq(Frame)
      BY TypeParts
    <3>2. toClient' = toClient \/ toClient' = <<>>
      BY <1>7 DEF FailsAll
    <3> QED BY <3>1, <3>2
  <2> QED BY <2>2, <2>3, <2>4 DEF TypeOK, TermType, ObsType, Busy
<1>8. CASE LinkDown
  BY <1>8 DEF LinkDown, clientVars, serverVars, TypeOK, Busy
<1>9. ASSUME NEW f \in ReqFrame, NEW status \in Status, NEW E \in SUBSET StreamFrame,
             Serves(f, status, E)
      PROVE  TypeOK'
  BY <1>9 DEF Serves, clientVars, TypeOK, Busy, ShellType
<1>10. CASE Guest
  <2>1. toServer' \in Seq(ReqFrame)
    <3>1. <<>> \in Seq(ReqFrame) /\ toServer \in Seq(ReqFrame)
      BY TypeParts
    <3>2. toServer' = toServer \/ toServer' = <<>>
      BY <1>10 DEF Guest
    <3> QED BY <3>1, <3>2
  <2> QED BY <1>10, <2>1 DEF Guest, clientVars, TypeOK, Busy, ShellType
<1> QED BY <1>1, <1>2, <1>3, <1>4, <1>5, <1>6, <1>7, <1>8, <1>9, <1>10 DEF Step

LEMMA AppendDistinct ==
    ASSUME NEW s \in Seq(ReqFrame), NEW r \in ReqFrame,
           \A i, j \in 1 .. Len(s) : s[i].seq = s[j].seq => i = j,
           \A g \in Elements(s) : g.seq # r.seq
    PROVE  \A i, j \in 1 .. Len(Append(s, r)) :
              Append(s, r)[i].seq = Append(s, r)[j].seq => i = j
<1> DEFINE t == Append(s, r)
<1>1. /\ Len(t) = Len(s) + 1 /\ Len(s) \in Nat
      /\ \A i \in 1 .. Len(s) : t[i] = s[i]
      /\ t[Len(s) + 1] = r
  OBVIOUS
<1> HIDE DEF t
<1>2. \A i \in 1 .. Len(t) : i \in 1 .. Len(s) \/ i = Len(s) + 1
  BY <1>1
<1>3. \A i \in 1 .. Len(s) : s[i].seq # r.seq
  BY DEF Elements
<1>4. \A i, j \in 1 .. Len(t) : t[i].seq = t[j].seq => i = j
  BY <1>1, <1>2, <1>3
<1> QED BY <1>4 DEF t

LEMMA InTurnStep == ASSUME TypeOK, InTurn, Step PROVE InTurn'
<1>0. /\ last \in Nat /\ pending \subseteq 1 .. last /\ Nothing \notin 1 .. last
      /\ last + 1 \notin 1 .. last /\ ~(last + 1 <= last)
      /\ \A c \in Caller : Busy(c) => calls[c].seq \in 1 .. last
      /\ \A f \in Requests : f.seq \in Number /\ f.seq <= last
      /\ \A f \in Frames : f.seq <= last /\ f.seq \in Slot
  BY TypeParts DEF TypeOK, Nothing, InTurn, ReqFrame, Frame, RespFrame, StreamFrame, Slot
<1>1. ASSUME NEW c \in Caller, NEW op \in Methods, NEW n \in 0 .. last, Begins(c, op, n)
      PROVE  InTurn'
  <2>1. Begin(c, op, n)
    BY <1>1 DEF Begins
  <2>2. /\ last + 1 \in Number /\ last' = last + 1 /\ calls[c].pc = "idle"
        /\ calls'[c].pc = "send" /\ calls'[c].seq = last + 1
        /\ \A d \in Caller : d # c => calls'[d] = calls[d]
    BY <2>1, BeginEffect
  <2>3. /\ UNCHANGED <<pending, answer, toServer, toClient>> /\ client'.closed = client.closed
        /\ Requests' = Requests /\ Frames' = Frames
    BY <1>1, <2>1 DEF Begins, Begin, linkVars, Requests, Frames
  <2>4. answer[last + 1] = "empty"
    BY <1>0, <2>2 DEF InTurn
  <2>5. \A d, e \in Caller : Busy(d)' /\ Busy(e)' /\ calls'[d].seq = calls'[e].seq => d = e
    BY <1>0, <2>2 DEF InTurn, Busy
  <2>6. \A d \in Caller : calls'[d].pc = "send" =>
          /\ calls'[d].seq \notin pending /\ answer[calls'[d].seq] = "empty"
          /\ \A f \in Requests : f.seq # calls'[d].seq
          /\ \A f \in Frames : f.seq # calls'[d].seq
    <3>1. calls'[c].seq \notin pending /\ \A f \in Requests \cup Frames : f.seq # calls'[c].seq
      BY <1>0, <2>2
    <3> QED BY <2>2, <2>4, <3>1 DEF InTurn
  <2>7. \A f \in Requests : \A d \in Caller : Busy(d)' /\ calls'[d].seq = f.seq =>
          calls'[d].op = f.method /\ calls'[d].stream = f.stream
    BY <1>0, <2>2 DEF InTurn, Busy
  <2>8. /\ \A f \in Requests : f.seq <= last'
        /\ \A f \in Frames : f.seq <= last'
        /\ \A m \in Number : answer[m] # "empty" => m <= last'
    <3>1. \A m \in Slot : m <= last => m <= last'
      BY <1>0, <2>2, Numbers DEF Slot, Nothing
    <3> QED BY <1>0, <3>1, Numbers DEF InTurn
  <2> QED BY <2>3, <2>5, <2>6, <2>7, <2>8 DEF InTurn
<1>2. ASSUME NEW c \in Caller, Sends(c) PROVE InTurn'
  <2>1. /\ calls[c].pc = "send" /\ pending' = pending \cup {calls[c].seq} /\ last' = last
        /\ UNCHANGED <<client, answer, toClient>> /\ Frames' = Frames
    BY <1>2 DEF Sends, Frames
  <2>2. /\ calls'[c].pc = "wait" /\ calls'[c].op = calls[c].op
        /\ calls'[c].seq = calls[c].seq /\ calls'[c].stream = calls[c].stream
        /\ \A d \in Caller : d # c => calls'[d] = calls[d]
        /\ calls[c].seq \in 1 .. last
    BY <1>2, SendsEffect
  <2>3. PICK r \in ReqFrame :
                 /\ r.seq = calls[c].seq /\ r.stream = calls[c].stream /\ r.method = calls[c].op
                 /\ toServer' = Append(toServer, r) /\ Requests' = Requests \cup {r}
    BY <1>2, SendsEffect
  <2>4. /\ answer[calls[c].seq] = "empty" /\ \A f \in Requests : f.seq # calls[c].seq
        /\ \A f \in Frames : f.seq # calls[c].seq
    BY <2>1 DEF InTurn
  <2>5. \A d \in Caller : d # c /\ Busy(d) => calls[d].seq # calls[c].seq
    BY <2>1 DEF InTurn, Busy
  <2>6. \A d, e \in Caller : Busy(d)' /\ Busy(e)' /\ calls'[d].seq = calls'[e].seq => d = e
    BY <2>1, <2>2, <2>5 DEF InTurn, Busy
  <2>7. \A d \in Caller : calls'[d].pc = "send" =>
          /\ calls'[d].seq \notin pending' /\ answer[calls'[d].seq] = "empty"
          /\ \A f \in Requests' : f.seq # calls'[d].seq
          /\ \A f \in Frames : f.seq # calls'[d].seq
    <3> SUFFICES ASSUME NEW d \in Caller, calls'[d].pc = "send"
                 PROVE  /\ calls[d].seq \notin pending' /\ answer[calls[d].seq] = "empty"
                        /\ \A f \in Requests' : f.seq # calls[d].seq
                        /\ \A f \in Frames : f.seq # calls[d].seq
                        /\ calls'[d] = calls[d]
      BY <2>2
    <3>1. d # c /\ calls'[d] = calls[d] /\ calls[d].pc = "send" /\ Busy(d)
      BY <2>2 DEF Busy
    <3> QED BY <2>1, <2>3, <2>5, <3>1 DEF InTurn
  <2>8. \A f \in Requests' : \A d \in Caller : Busy(d)' /\ calls'[d].seq = f.seq =>
          calls'[d].op = f.method /\ calls'[d].stream = f.stream
    BY <2>1, <2>2, <2>3, <2>5 DEF InTurn, Busy
  <2>9. \A f \in Requests' : f.seq <= last
    BY <1>0, <2>2, <2>3
  <2>10. \A i, j \in 1 .. Len(toServer') : toServer'[i].seq = toServer'[j].seq => i = j
    <3>1. toServer \in Seq(ReqFrame) /\ \A g \in Elements(toServer) : g.seq # r.seq
      BY <2>3, <2>4, TypeParts DEF Requests
    <3>2. \A i, j \in 1 .. Len(toServer) : toServer[i].seq = toServer[j].seq => i = j
      BY DEF InTurn
    <3> QED BY <2>3, <3>1, <3>2, AppendDistinct
  <2>11. /\ \A f \in Requests' : \A g \in Frames : f.seq # g.seq
         /\ \A f \in Requests' : answer[f.seq] = "empty" \/ client.closed
    BY <2>3, <2>4 DEF InTurn
  <2>12. /\ \A f \in Frames : f.seq <= last
         /\ \A n \in Number : answer[n] # "empty" => n <= last
    BY DEF InTurn
  <2> QED BY <2>1, <2>6, <2>7, <2>8, <2>9, <2>10, <2>11, <2>12 DEF InTurn
<1>3. ASSUME NEW c \in Caller, NEW status \in Status, Settles(c, status) PROVE InTurn'
  <2>1. Busy(c) /\ Settle(c, status)
    BY <1>3 DEF Settles
  <2>2. /\ calls'[c] = Idle /\ \A d \in Caller : d # c => calls'[d] = calls[d]
        /\ last' = last /\ client'.closed = client.closed
    BY <2>1, SettleEffect
  <2>3. UNCHANGED <<toServer, toClient>> /\ Requests' = Requests /\ Frames' = Frames
        /\ pending' \subseteq pending
    BY <1>3 DEF Settles, linkVars, Requests, Frames
  <2>4. \A n \in Number : answer'[n] = answer[n] \/ answer'[n] = "empty"
    <3>1. answer' = answer \/ answer' = [answer EXCEPT ![calls[c].seq] = "empty"]
      BY <1>3 DEF Settles
    <3> QED BY <3>1, TypeParts
  <2>5. \A d \in Caller : Busy(d)' => d # c /\ Busy(d) /\ calls'[d] = calls[d]
    BY <2>2 DEF Busy, Idle
  <2>6. \A d \in Caller : calls'[d].pc = "send" => Busy(d)'
    BY DEF Busy
  <2>7. \A d \in Caller : Busy(d) => calls[d].seq \in Number
    BY <1>0, TypeParts
  <2>8. \A d, e \in Caller : Busy(d)' /\ Busy(e)' /\ calls'[d].seq = calls'[e].seq => d = e
    BY <2>5 DEF InTurn
  <2>9. \A d \in Caller : calls'[d].pc = "send" =>
          /\ calls'[d].seq \notin pending' /\ answer'[calls'[d].seq] = "empty"
          /\ \A f \in Requests : f.seq # calls'[d].seq
          /\ \A f \in Frames : f.seq # calls'[d].seq
    BY <2>3, <2>4, <2>5, <2>6, <2>7 DEF InTurn
  <2>10. \A f \in Requests : \A d \in Caller : Busy(d)' /\ calls'[d].seq = f.seq =>
          calls'[d].op = f.method /\ calls'[d].stream = f.stream
    BY <2>5 DEF InTurn
  <2>11. /\ \A n \in Number : answer'[n] # "empty" => n <= last
         /\ \A f \in Requests : answer'[f.seq] = "empty" \/ client.closed
    BY <1>0, <2>4 DEF InTurn
  <2> QED BY <2>2, <2>3, <2>8, <2>9, <2>10, <2>11 DEF InTurn
<1>4. CASE Takes
  BY <1>4 DEF Takes, linkVars, InTurn, Requests, Frames, Busy
<1>5. ASSUME NEW n \in Number, Aborts(n) PROVE InTurn'
  <2>1. /\ last + 1 \in Number /\ last' = last + 1
        /\ UNCHANGED <<client, answer, calls, toClient>> /\ Frames' = Frames
    BY <1>5 DEF Aborts, Frames
  <2>2. \A m \in Slot : m <= last => m <= last'
    BY <1>0, <2>1, Numbers DEF Slot, Nothing
  <2>3. /\ \A f \in Frames : f.seq <= last'
        /\ \A f \in Requests : f.seq <= last'
        /\ \A m \in Number : answer[m] # "empty" => m <= last'
    BY <1>0, <2>2, Numbers DEF InTurn
  <2>4. CASE UNCHANGED <<pending, toServer>>
    BY <2>1, <2>3, <2>4 DEF InTurn, Requests, Busy
  <2>5. CASE pending' = pending \cup {last + 1} /\ toServer' # toServer
    <3>1. PICK r \in ReqFrame :
                /\ r.seq = last + 1 /\ r.stream = n /\ r.method = "unwatch"
                /\ toServer' = Append(toServer, r) /\ Requests' = Requests \cup {r}
      BY <1>5, <2>5 DEF Aborts
    <3>2. /\ \A f \in Requests : f.seq # last + 1
          /\ \A f \in Frames : f.seq # last + 1
          /\ \A d \in Caller : Busy(d) => calls[d].seq # last + 1
      BY <1>0
    <3>3. answer[last + 1] = "empty" /\ last + 1 <= last'
      BY <1>0, <2>1 DEF InTurn
    <3>4. \A i, j \in 1 .. Len(toServer') : toServer'[i].seq = toServer'[j].seq => i = j
      <4>1. toServer \in Seq(ReqFrame) /\ \A g \in Elements(toServer) : g.seq # r.seq
        BY <3>1, <3>2, TypeParts DEF Requests
      <4>2. \A i, j \in 1 .. Len(toServer) : toServer[i].seq = toServer[j].seq => i = j
        BY DEF InTurn
      <4> QED BY <3>1, <4>1, <4>2, AppendDistinct
    <3>5. \A d \in Caller : calls[d].pc = "send" =>
          /\ calls[d].seq \notin pending' /\ answer[calls[d].seq] = "empty"
          /\ \A f \in Requests' : f.seq # calls[d].seq
          /\ \A f \in Frames : f.seq # calls[d].seq
      BY <2>5, <3>1, <3>2 DEF InTurn, Busy
    <3>6. /\ \A f \in Requests' : \A d \in Caller : Busy(d) /\ calls[d].seq = f.seq =>
               calls[d].op = f.method /\ calls[d].stream = f.stream
          /\ \A f \in Requests' : f.seq <= last'
          /\ \A f \in Requests' : \A g \in Frames : f.seq # g.seq
          /\ \A f \in Requests' : answer[f.seq] = "empty" \/ client.closed
      BY <2>3, <3>1, <3>2, <3>3 DEF InTurn
    <3> QED BY <2>1, <2>3, <3>4, <3>5, <3>6 DEF InTurn, Busy
  <2> QED BY <1>5, <2>4, <2>5 DEF Aborts
<1>6. ASSUME NEW f \in Frame, Reads(f) PROVE InTurn'
  <2>1. /\ f \in Frames /\ Frames' \subseteq Frames /\ client'.closed = client.closed
        /\ UNCHANGED <<last, calls, toServer>> /\ Requests' = Requests /\ pending' \subseteq pending
    BY <1>6 DEF Reads, Requests
  <2>2. \A n \in Number : answer'[n] # answer[n] => n = f.seq
    BY <1>6, TypeParts DEF Reads
  <2>3. \A d \in Caller : calls[d].pc = "send" => answer'[calls[d].seq] = "empty"
    <3> SUFFICES ASSUME NEW d \in Caller, calls[d].pc = "send"
                 PROVE  answer'[calls[d].seq] = "empty"
      OBVIOUS
    <3>1. Busy(d) /\ calls[d].seq \in Number
      BY <1>0, TypeParts DEF Busy
    <3> QED BY <2>1, <2>2, <3>1 DEF InTurn
  <2>4. \A g \in Requests : answer'[g.seq] = "empty" \/ client.closed
    BY <1>0, <2>1, <2>2 DEF InTurn
  <2>5. \A n \in Number : answer'[n] # "empty" => n <= last
    BY <1>0, <2>1, <2>2 DEF InTurn
  <2> QED BY <2>1, <2>3, <2>4, <2>5 DEF InTurn, Busy
<1>7. CASE FailsAll
  <2>1. PICK status \in Status : answer' = FailedAnswers(status)
    BY <1>7 DEF FailsAll
  <2>2. /\ client'.closed = TRUE /\ pending' = {} /\ UNCHANGED <<last, calls, toServer>>
        /\ Requests' = Requests
    BY <1>7 DEF FailsAll, Requests
  <2>3. Frames' \subseteq Frames
    BY <1>7 DEF FailsAll, Frames, Elements
  <2>4. \A n \in Number : n \notin pending => answer'[n] = answer[n]
    BY <2>1 DEF FailedAnswers
  <2>5. \A d \in Caller : calls[d].pc = "send" => answer'[calls[d].seq] = "empty"
    <3> SUFFICES ASSUME NEW d \in Caller, calls[d].pc = "send"
                 PROVE  answer'[calls[d].seq] = "empty"
      OBVIOUS
    <3>1. Busy(d) /\ calls[d].seq \in Number
      BY <1>0, TypeParts DEF Busy
    <3> QED BY <2>4, <3>1 DEF InTurn
  <2>6. \A n \in Number : answer'[n] # "empty" => n <= last
    <3>1. \A n \in pending : n <= last
      BY <1>0
    <3> QED BY <2>4, <3>1 DEF InTurn
  <2> QED BY <2>2, <2>3, <2>5, <2>6 DEF InTurn, Busy
<1>8. CASE LinkDown
  BY <1>8 DEF LinkDown, clientVars, InTurn, Requests, Frames, Busy
<1>9. ASSUME NEW f \in ReqFrame, NEW status \in Status, NEW E \in SUBSET StreamFrame,
             Serves(f, status, E)
      PROVE  InTurn'
  <2>1. /\ f \in Requests /\ Requests' \subseteq Requests /\ \A g \in Requests' : g.seq # f.seq
        /\ UNCHANGED <<client, last, calls, answer, pending>>
        /\ \A i, j \in 1 .. Len(toServer') : toServer'[i].seq = toServer'[j].seq => i = j
    BY <1>9 DEF Serves, clientVars
  <2>2. \A g \in Frames' : g \in Frames \/ g.seq = Nothing \/ g.seq = f.seq
    <3>1. Response(f.seq, status).seq = f.seq
      BY <1>0, <2>1, FrameTypes
    <3> QED BY <1>9, <3>1 DEF Serves
  <2>3. \A g \in Requests : g.seq # Nothing /\ f.seq <= last /\ Nothing <= last
    BY <1>0, <2>1, Numbers DEF Nothing
  <2>4. \A d \in Caller : Busy(d) => calls[d].seq # Nothing
    BY <1>0
  <2>5. \A d \in Caller : calls[d].pc = "send" => \A g \in Frames' : g.seq # calls[d].seq
    BY <2>1, <2>2, <2>4 DEF InTurn, Busy
  <2>6. \A g \in Frames' : g.seq <= last
    BY <1>0, <2>1, <2>2, <2>3
  <2>7. \A g \in Requests' : \A h \in Frames' : g.seq # h.seq
    BY <2>1, <2>2, <2>3 DEF InTurn
  <2> QED BY <2>1, <2>5, <2>6, <2>7 DEF InTurn, Busy
<1>10. CASE Guest
  <2>1. /\ UNCHANGED <<client, last, calls, answer, pending>>
        /\ \A g \in Frames' : g \in Frames \/ g.seq = Nothing
    BY <1>10 DEF Guest, clientVars
  <2>2. /\ Requests' \subseteq Requests
        /\ \A i, j \in 1 .. Len(toServer') : toServer'[i].seq = toServer'[j].seq => i = j
    <3>1. CASE toServer' = toServer
      BY <3>1 DEF InTurn, Requests
    <3>2. CASE toServer' = <<>>
      <4>1. Len(toServer') = 0
        BY <3>2
      <4>2. 1 .. Len(toServer') = {}
        BY <4>1
      <4> QED BY <4>2 DEF Requests, Elements
    <3> QED BY <1>10, <3>1, <3>2 DEF Guest
  <2>3. \A g \in Requests : g.seq # Nothing /\ Nothing <= last
    BY <1>0, Numbers DEF Nothing
  <2>4. \A d \in Caller : Busy(d) => calls[d].seq # Nothing
    BY <1>0
  <2>5. \A d \in Caller : calls[d].pc = "send" => \A g \in Frames' : g.seq # calls[d].seq
    BY <2>1, <2>4 DEF InTurn, Busy
  <2>6. \A g \in Frames' : g.seq <= last
    BY <1>0, <2>1 DEF Nothing
  <2>7. \A g \in Requests' : \A h \in Frames' : g.seq # h.seq
    BY <2>1, <2>2, <2>3 DEF InTurn
  <2> QED BY <2>1, <2>2, <2>5, <2>6, <2>7 DEF InTurn, Busy
<1> QED BY <1>1, <1>2, <1>3, <1>4, <1>5, <1>6, <1>7, <1>8, <1>9, <1>10 DEF Step

LEMMA AnswerStep == ASSUME TypeOK, InTurn, OneAnswer, Step PROVE OneAnswer'
<1>0. /\ pending \subseteq Number /\ pending \subseteq 1 .. last /\ last \in Nat
      /\ answer \in [Number -> Status \cup {"empty"}]
  BY TypeParts DEF TypeOK
<1>1. ASSUME NEW c \in Caller, NEW op \in Methods, NEW n \in 0 .. last, Begins(c, op, n)
      PROVE  OneAnswer'
  BY <1>1 DEF Begins, Begin, OneAnswer
<1>2. ASSUME NEW c \in Caller, Sends(c) PROVE OneAnswer'
  BY <1>2 DEF Sends, OneAnswer, InTurn
<1>3. ASSUME NEW c \in Caller, NEW status \in Status, Settles(c, status) PROVE OneAnswer'
  <2>1. pending' \subseteq pending
    BY <1>3 DEF Settles
  <2>2. answer' = answer \/ answer' = [answer EXCEPT ![calls[c].seq] = "empty"]
    BY <1>3 DEF Settles
  <2> QED BY <1>0, <2>1, <2>2 DEF OneAnswer
<1>4. CASE Takes
  BY <1>4 DEF Takes, OneAnswer
<1>5. ASSUME NEW n \in Number, Aborts(n) PROVE OneAnswer'
  <2>1. last + 1 \in Number /\ answer' = answer
        /\ (pending' = pending \/ pending' = pending \cup {last + 1})
    BY <1>5 DEF Aborts
  <2>2. answer[last + 1] = "empty"
    BY <1>0, <2>1 DEF InTurn
  <2> QED BY <2>1, <2>2 DEF OneAnswer
<1>6. ASSUME NEW f \in Frame, Reads(f) PROVE OneAnswer'
  <2>1. CASE f.kind = "response" /\ f.seq \in pending
    BY <1>0, <1>6, <2>1 DEF Reads, OneAnswer
  <2>2. CASE ~(f.kind = "response" /\ f.seq \in pending)
    BY <1>6, <2>2 DEF Reads, OneAnswer
  <2> QED BY <2>1, <2>2
<1>7. CASE FailsAll
  BY <1>7 DEF FailsAll, OneAnswer
<1>8. CASE LinkDown
  BY <1>8 DEF LinkDown, clientVars, OneAnswer
<1>9. ASSUME NEW f \in ReqFrame, NEW status \in Status, NEW E \in SUBSET StreamFrame,
             Serves(f, status, E)
      PROVE  OneAnswer'
  BY <1>9 DEF Serves, clientVars, OneAnswer
<1>10. CASE Guest
  BY <1>10 DEF Guest, clientVars, OneAnswer
<1> QED BY <1>1, <1>2, <1>3, <1>4, <1>5, <1>6, <1>7, <1>8, <1>9, <1>10 DEF Step

----------------------------------------------------------------------------
(* The shells.                                                             *)

LEMMA ServeShells ==
    ASSUME TypeOK, ShellsOK, NEW f \in ReqFrame, NEW status \in Status,
           NEW E \in SUBSET StreamFrame, Serves(f, status, E)
    PROVE  /\ \A n \in Number : shells'[n] = "running" =>
                 /\ server'.term = n
                 /\ \/ shells[n] = "running"
                    \/ f.method = "attach" /\ f.stream = n /\ status = "ok"
           /\ \A n \in Number : shells[n] = "none" =>
                 shells'[n] = "none" \/ (f.method = "attach" /\ f.stream = n)
           /\ \A n \in Number : server'.term = n => shells'[n] # "none"
           /\ f.method = "detach" => shells'[f.stream] # "running"
<1>1. /\ shells \in ShellType /\ f.stream \in Number
      /\ \A n \in Number : shells[n] = "running" => server.term = n
      /\ \A n \in Number : server.term = n => shells[n] # "none"
  BY DEF TypeOK, ShellType, ShellsOK, RunningShellIsKnown, ReqFrame
<1>2. CASE /\ shells' = shells /\ server'.term = server.term
           /\ f.method = "detach" => server.term # f.stream
  BY <1>1, <1>2
<1>3. CASE /\ f.method = "attach" /\ status = "ok" /\ server'.term = f.stream
           /\ server.term = Nothing
           /\ shells' = [shells EXCEPT ![f.stream] = "running"]
  <2>1. \A n \in Number : shells[n] # "running"
    BY <1>1, <1>3, Numbers
  <2>2. /\ shells'[f.stream] = "running"
        /\ \A n \in Number : n # f.stream => shells'[n] = shells[n]
    BY <1>1, <1>3 DEF ShellType
  <2> QED BY <1>3, <2>1, <2>2
<1>4. CASE KillShell /\ server'.term = Nothing
  <2>1. \A n \in Number : /\ shells'[n] = "running" => shells[n] = "running"
                          /\ shells[n] = "none" /\ n # server.term => shells'[n] = "none"
                          /\ n = server.term => shells'[n] # "running"
    BY <1>4, KillEffect
  <2>2. \A n \in Number : shells'[n] # "running"
    BY <1>1, <2>1
  <2> QED BY <1>1, <1>4, <2>1, <2>2, Numbers
<1> QED BY <1>2, <1>3, <1>4 DEF Serves

LEMMA ShellsStep == ASSUME TypeOK, InTurn, ShellsOK, Step PROVE ShellsOK'
<1>0. /\ last \in Nat /\ Nothing \notin 1 .. last /\ last + 1 \notin 1 .. last
      /\ handles \subseteq {"attach", "watch"} \X (1 .. last)
      /\ \A c \in Caller : Busy(c) => calls[c].seq \in 1 .. last /\ calls[c].stream \in 1 .. last
      /\ 1 .. last \subseteq Number
  BY TypeParts DEF TypeOK, Nothing
<1>s. /\ RunningShellIsKnown
      /\ \A n \in Number : shells[n] # "none" => n <= last
      /\ \A n \in Number : server.term = n => shells[n] # "none"
      /\ \A n \in Number : terms[n].closed => <<"attach", n>> \in handles
  BY DEF ShellsOK
<1>1. ASSUME NEW c \in Caller, NEW op \in Methods, NEW n \in 0 .. last, Begins(c, op, n)
      PROVE  ShellsOK'
  <2>1. Begin(c, op, n)
    BY <1>1 DEF Begins
  <2>2. /\ last + 1 \in Number /\ last' = last + 1 /\ calls'[c].op = op
        /\ calls'[c].seq = last + 1
        /\ calls'[c].stream = IF n = Nothing THEN last + 1 ELSE n
        /\ \A d \in Caller : d # c => calls'[d] = calls[d]
    BY <2>1, BeginEffect
  <2>3. UNCHANGED <<handles, shells, server>> /\ Requests' = Requests
    BY <2>1 DEF Begin, serverVars, linkVars, Requests
  <2>4. RunningShellIsKnown'
    BY <1>s, <2>3 DEF RunningShellIsKnown
  <2>5. \A m \in Number : shells[m] # "none" => m <= last'
    <3>1. \A m \in Number : m <= last => m <= last'
      BY <1>0, <2>2, Numbers
    <3> QED BY <1>s, <3>1
  <2>6. \A d \in Caller : Busy(d)' /\ calls'[d].op = "attach" =>
          /\ calls'[d].stream = calls'[d].seq
          /\ <<"attach", calls'[d].seq>> \notin handles
          /\ calls'[d].pc = "send" => shells[calls'[d].seq] = "none"
    <3>1. CASE op = "attach"
      <4>1. n = Nothing
        BY <1>1, <3>1 DEF Begins
      <4>2. calls'[c].stream = last + 1 /\ <<"attach", last + 1>> \notin handles
        BY <1>0, <2>2, <4>1
      <4>3. shells[last + 1] = "none"
        BY <1>0, <1>s, <2>2
      <4> QED BY <2>2, <4>2, <4>3 DEF ShellsOK, Busy
    <3>2. CASE op # "attach"
      BY <2>2, <3>2 DEF ShellsOK, Busy
    <3> QED BY <3>1, <3>2
  <2>7. \A d \in Caller : Busy(d)' /\ calls'[d].op = "detach" =>
          <<"attach", calls'[d].stream>> \in handles
    <3>1. op = "detach" => <<"attach", n>> \in handles /\ n # Nothing
      BY <1>0, <1>1 DEF Begins
    <3> QED BY <2>2, <3>1 DEF ShellsOK, Busy
  <2>8. \A m \in Number : terms'[m].closed => <<"attach", m>> \in handles
    BY <1>1, <1>s DEF Begins
  <2>9. \A f \in Requests : f.method = "attach" => f.stream = f.seq /\ shells[f.seq] = "none"
    BY DEF ShellsOK
  <2> QED BY <1>s, <2>3, <2>4, <2>5, <2>6, <2>7, <2>8, <2>9 DEF ShellsOK
<1>2. ASSUME NEW c \in Caller, Sends(c) PROVE ShellsOK'
  <2>1. UNCHANGED <<last, terms, handles, server, shells>> /\ calls[c].pc = "send"
    BY <1>2 DEF Sends, serverVars
  <2>2. /\ calls'[c].pc = "wait" /\ calls'[c].op = calls[c].op
        /\ calls'[c].seq = calls[c].seq /\ calls'[c].stream = calls[c].stream
        /\ \A d \in Caller : d # c => calls'[d] = calls[d]
    BY <1>2, SendsEffect
  <2>3. PICK r \in ReqFrame :
                 /\ r.seq = calls[c].seq /\ r.stream = calls[c].stream /\ r.method = calls[c].op
                 /\ Requests' = Requests \cup {r}
    BY <1>2, SendsEffect
  <2>4. \A f \in Requests' : f.method = "attach" => f.stream = f.seq /\ shells[f.seq] = "none"
    BY <2>1, <2>3 DEF ShellsOK, Busy
  <2>5. \A d \in Caller : Busy(d)' /\ calls'[d].op = "attach" =>
          /\ calls'[d].stream = calls'[d].seq
          /\ <<"attach", calls'[d].seq>> \notin handles
          /\ calls'[d].pc = "send" => shells[calls'[d].seq] = "none"
    BY <2>1, <2>2 DEF ShellsOK, Busy
  <2>6. \A d \in Caller : Busy(d)' /\ calls'[d].op = "detach" =>
          <<"attach", calls'[d].stream>> \in handles
    BY <2>1, <2>2 DEF ShellsOK, Busy
  <2> QED BY <1>s, <2>1, <2>4, <2>5, <2>6 DEF ShellsOK, RunningShellIsKnown
<1>3. ASSUME NEW c \in Caller, NEW status \in Status, Settles(c, status) PROVE ShellsOK'
  <2>1. Busy(c) /\ Settle(c, status)
    BY <1>3 DEF Settles
  <2>2. /\ calls'[c] = Idle /\ \A d \in Caller : d # c => calls'[d] = calls[d]
        /\ UNCHANGED <<last, server, shells>>
        /\ \A m \in Number : terms'[m].closed = terms[m].closed
        /\ handles' = IF status = "ok" /\ calls[c].op \in {"attach", "watch"}
                      THEN handles \cup {<<calls[c].op, calls[c].stream>>} ELSE handles
    BY <2>1, SettleEffect DEF serverVars
  <2>3. Requests' = Requests
    BY <1>3 DEF Settles, linkVars, Requests
  <2>4. \A d \in Caller : Busy(d)' => d # c /\ Busy(d) /\ calls'[d] = calls[d]
    BY <2>2 DEF Busy, Idle
  <2>5. \A d \in Caller : d # c /\ Busy(d) => calls[d].seq # calls[c].seq
    BY <2>1 DEF InTurn
  <2>6. calls[c].op = "attach" => calls[c].stream = calls[c].seq
    BY <2>1 DEF ShellsOK
  <2>7. \A m : <<"attach", m>> \in handles' =>
           <<"attach", m>> \in handles \/ (calls[c].op = "attach" /\ m = calls[c].seq)
    BY <2>2, <2>6
  <2>8. \A d \in Caller : Busy(d)' /\ calls'[d].op = "attach" =>
          /\ calls'[d].stream = calls'[d].seq
          /\ <<"attach", calls'[d].seq>> \notin handles'
          /\ calls'[d].pc = "send" => shells[calls'[d].seq] = "none"
    BY <2>4, <2>5, <2>7 DEF ShellsOK
  <2>9. handles \subseteq handles'
    BY <2>2
  <2>10. /\ \A d \in Caller : Busy(d)' /\ calls'[d].op = "detach" =>
              <<"attach", calls'[d].stream>> \in handles'
         /\ \A n \in Number : terms'[n].closed => <<"attach", n>> \in handles'
    BY <2>2, <2>4, <2>9 DEF ShellsOK
  <2> QED BY <1>s, <2>2, <2>3, <2>8, <2>10 DEF ShellsOK, RunningShellIsKnown
<1>4. CASE Takes
  BY <1>4 DEF Takes, linkVars, serverVars, ShellsOK, RunningShellIsKnown, Requests, Busy
<1>5. ASSUME NEW n \in Number, Aborts(n) PROVE ShellsOK'
  <2>1. last' = last + 1 /\ UNCHANGED <<calls, terms, handles, server, shells>>
    BY <1>5 DEF Aborts, serverVars
  <2>2. \A f \in Requests' : f.method = "attach" => f \in Requests
    BY <1>5 DEF Aborts, Requests
  <2>3. \A m \in Number : shells[m] # "none" => m <= last'
    <3>1. \A m \in Number : m <= last => m <= last'
      BY <1>0, <2>1, Numbers
    <3> QED BY <1>s, <3>1
  <2> QED BY <1>s, <2>1, <2>2, <2>3 DEF ShellsOK, RunningShellIsKnown, Busy
<1>6. ASSUME NEW f \in Frame, Reads(f) PROVE ShellsOK'
  <2>1. /\ UNCHANGED <<last, calls, handles, server, shells>> /\ Requests' = Requests
        /\ \A m \in Number : terms'[m].closed = terms[m].closed
    BY <1>6 DEF Reads, serverVars, Requests
  <2> QED BY <1>s, <2>1 DEF ShellsOK, RunningShellIsKnown, Busy
<1>7. CASE FailsAll
  <2>1. /\ UNCHANGED <<last, calls, handles, server, shells>> /\ Requests' = Requests
        /\ \A m \in Number : terms'[m].closed = terms[m].closed
    BY <1>7 DEF FailsAll, serverVars, Requests
  <2> QED BY <1>s, <2>1 DEF ShellsOK, RunningShellIsKnown, Busy
<1>8. CASE LinkDown
  BY <1>8 DEF LinkDown, clientVars, serverVars, ShellsOK, RunningShellIsKnown, Requests, Busy
<1>9. ASSUME NEW f \in ReqFrame, NEW status \in Status, NEW E \in SUBSET StreamFrame,
             Serves(f, status, E)
      PROVE  ShellsOK'
  <2>1. /\ \A n \in Number : shells'[n] = "running" => server'.term = n
        /\ \A n \in Number : shells[n] = "none" =>
              shells'[n] = "none" \/ (f.method = "attach" /\ f.stream = n)
        /\ \A n \in Number : server'.term = n => shells'[n] # "none"
    BY <1>9, ServeShells
  <2>2. /\ f \in Requests /\ Requests' \subseteq Requests /\ \A g \in Requests' : g.seq # f.seq
        /\ UNCHANGED <<last, calls, terms, handles>> /\ shells' \in ShellType
    BY <1>9 DEF Serves, clientVars
  <2>3. f.method = "attach" => f.stream = f.seq
    BY <2>2 DEF ShellsOK
  <2>4. \A n \in Number : shells'[n] # "none" =>
           shells[n] # "none" \/ (f.method = "attach" /\ f.seq = n)
    BY <2>1, <2>3
  <2>5. \A n \in Number : shells'[n] # "none" => n <= last
    BY <1>s, <2>2, <2>4 DEF InTurn
  <2>6. \A d \in Caller : calls[d].pc = "send" => calls[d].seq \in Number /\ calls[d].seq # f.seq
    BY <1>0, <2>2 DEF InTurn, Busy
  <2>7. \A d \in Caller : Busy(d) /\ calls[d].op = "attach" =>
          /\ calls[d].stream = calls[d].seq
          /\ <<"attach", calls[d].seq>> \notin handles
          /\ calls[d].pc = "send" => shells'[calls[d].seq] = "none"
    BY <2>4, <2>6 DEF ShellsOK
  <2>8. \A g \in Requests' : g.method = "attach" => g.stream = g.seq /\ shells'[g.seq] = "none"
    <3>1. \A g \in Requests' : g.seq \in Number /\ g \in Requests /\ g.seq # f.seq
      BY <2>2, TypeParts DEF ReqFrame
    <3> QED BY <2>4, <3>1 DEF ShellsOK
  <2>9. \A d \in Caller : Busy(d) /\ calls[d].op = "detach" =>
          <<"attach", calls[d].stream>> \in handles
    BY DEF ShellsOK
  <2> QED BY <1>s, <2>1, <2>2, <2>5, <2>7, <2>8, <2>9 DEF ShellsOK, RunningShellIsKnown, Busy
<1>10. CASE Guest
  <2>1. /\ \A n \in Number : shells'[n] = "running" =>
              shells[n] = "running" /\ (server.term = n => server'.term = n)
        /\ \A n \in Number : shells[n] = "none" => shells'[n] = "none"
        /\ \A n \in Number : server'.term = n => shells'[n] # "none"
        /\ UNCHANGED <<last, calls, terms, handles>>
    BY <1>10 DEF Guest, clientVars
  <2>2. Requests' \subseteq Requests
    BY <1>10 DEF Guest, Requests, Elements
  <2>3. \A g \in Requests : g.seq \in Number
    BY TypeParts DEF ReqFrame
  <2>4. \A d \in Caller : Busy(d) => calls[d].seq \in Number
    BY <1>0
  <2>5. /\ RunningShellIsKnown'
        /\ \A n \in Number : shells'[n] # "none" => n <= last
    BY <1>s, <2>1 DEF RunningShellIsKnown
  <2>6. /\ \A d \in Caller : Busy(d) /\ calls[d].op = "attach" =>
             /\ calls[d].stream = calls[d].seq
             /\ <<"attach", calls[d].seq>> \notin handles
             /\ calls[d].pc = "send" => shells'[calls[d].seq] = "none"
        /\ \A g \in Requests' : g.method = "attach" => g.stream = g.seq /\ shells'[g.seq] = "none"
        /\ \A d \in Caller : Busy(d) /\ calls[d].op = "detach" =>
             <<"attach", calls[d].stream>> \in handles
    BY <2>1, <2>2, <2>3, <2>4 DEF ShellsOK
  <2> QED BY <1>s, <2>1, <2>5, <2>6 DEF ShellsOK, Busy
<1> QED BY <1>1, <1>2, <1>3, <1>4, <1>5, <1>6, <1>7, <1>8, <1>9, <1>10 DEF Step

\* Once the link is down or the client closed, it stays so.
LEMMA UsableStep == ASSUME TypeOK, Step, Usable' PROVE Usable
<1>1. ASSUME NEW c \in Caller, NEW op \in Methods, NEW n \in 0 .. last, Begins(c, op, n)
      PROVE  Usable
  BY <1>1 DEF Begins, Begin, linkVars, Usable
<1>2. ASSUME NEW c \in Caller, NEW status \in Status, Settles(c, status) PROVE Usable
  <2>1. client'.closed = client.closed
    BY <1>2, SettleEffect DEF Settles
  <2>2. up' = up
    BY <1>2 DEF Settles, linkVars
  <2> QED BY <2>1, <2>2 DEF Usable
<1>3. ASSUME NEW f \in Frame, Reads(f) PROVE Usable
  BY <1>3 DEF Reads, Usable
<1>4. CASE FailsAll
  BY <1>4 DEF FailsAll, Usable
<1>5. CASE LinkDown
  BY <1>5 DEF LinkDown, Usable
<1>6. CASE \/ \E c \in Caller : Sends(c)
           \/ Takes \/ (\E n \in Number : Aborts(n))
           \/ \E f \in ReqFrame, status \in Status, E \in SUBSET StreamFrame : Serves(f, status, E)
           \/ Guest
  <2>1. UNCHANGED <<client, up>>
    BY <1>6 DEF Sends, Takes, Aborts, Serves, Guest, clientVars, linkVars
  <2> QED BY <2>1 DEF Usable
<1> QED BY <1>1, <1>2, <1>3, <1>4, <1>5, <1>6 DEF Step

LEMMA AttachesStep ==
    ASSUME TypeOK, InTurn, ShellsOK, AttachesOK, Step
    PROVE  AttachesOK'
<1> SUFFICES ASSUME Usable' PROVE AttachesOK'
  BY DEF AttachesOK
<1>u. Usable /\ up /\ ~client.closed
  BY UsableStep DEF Usable
<1>a. /\ \A f \in Requests : f.method = "attach" =>
              /\ <<"attach", f.seq>> \notin handles
              /\ \/ f.seq \in expired
                 \/ \E c \in Caller : Busy(c) /\ calls[c].op = "attach" /\ calls[c].seq = f.seq
      /\ \A c \in Caller : Busy(c) /\ calls[c].op = "attach" =>
              \/ shells[calls[c].seq] # "running"
              \/ /\ answer[calls[c].seq] \in {"empty", "ok"}
                 /\ \A g \in Frames : g.kind = "response" /\ g.seq = calls[c].seq
                                         => g.status = "ok"
      /\ \A c \in Caller : calls[c].pc = "wait" /\ calls[c].op = "detach" =>
              \/ shells[calls[c].stream] # "running"
              \/ \E f \in Requests : f.seq = calls[c].seq
  BY <1>u DEF AttachesOK
<1>0. /\ last \in Nat /\ last + 1 \notin 1 .. last
      /\ \A c \in Caller : Busy(c) =>
            calls[c].seq \in Number /\ calls[c].seq \in 1 .. last /\ calls[c].stream \in Number
      /\ \A n \in Number : shells[n] # "none" => n <= last
      /\ answer \in [Number -> Status \cup {"empty"}]
  BY TypeParts DEF TypeOK, ShellsOK
<1>1. ASSUME NEW c \in Caller, NEW op \in Methods, NEW n \in 0 .. last, Begins(c, op, n)
      PROVE  AttachesOK'
  <2>1. Begin(c, op, n)
    BY <1>1 DEF Begins
  <2>2. /\ last + 1 \in Number /\ calls'[c].pc = "send" /\ calls'[c].seq = last + 1
        /\ \A d \in Caller : d # c => calls'[d] = calls[d]
        /\ calls[c].pc = "idle"
    BY <2>1, BeginEffect
  <2>3. UNCHANGED <<answer, handles, expired, shells>> /\ Requests' = Requests /\ Frames' = Frames
    BY <2>1 DEF Begin, serverVars, linkVars, Requests, Frames
  <2>4. shells[last + 1] # "running"
    BY <1>0, <2>2
  <2>5. \A d \in Caller : Busy(d) => calls'[d] = calls[d] /\ Busy(d)'
    BY <2>2 DEF Busy
  <2>6. \A d \in Caller : Busy(d)' => d = c \/ (Busy(d) /\ calls'[d] = calls[d])
    BY <2>2 DEF Busy
  <2>7. \A f \in Requests : f.method = "attach" =>
              \/ f.seq \in expired
              \/ \E d \in Caller : Busy(d)' /\ calls'[d].op = "attach" /\ calls'[d].seq = f.seq
    <3> SUFFICES ASSUME NEW f \in Requests, f.method = "attach", f.seq \notin expired
                 PROVE  \E d \in Caller : Busy(d)' /\ calls'[d].op = "attach"
                                          /\ calls'[d].seq = f.seq
      OBVIOUS
    <3>1. PICK d \in Caller : Busy(d) /\ calls[d].op = "attach" /\ calls[d].seq = f.seq
      BY <1>a
    <3> QED BY <2>5, <3>1
  <2>8. \A d \in Caller : Busy(d)' /\ calls'[d].op = "attach" =>
              \/ shells[calls'[d].seq] # "running"
              \/ /\ answer[calls'[d].seq] \in {"empty", "ok"}
                 /\ \A g \in Frames : g.kind = "response" /\ g.seq = calls'[d].seq
                                         => g.status = "ok"
    BY <1>a, <2>2, <2>4, <2>6
  <2>9. \A d \in Caller : calls'[d].pc = "wait" /\ calls'[d].op = "detach" =>
              \/ shells[calls'[d].stream] # "running"
              \/ \E f \in Requests : f.seq = calls'[d].seq
    <3>1. \A d \in Caller : calls'[d].pc = "wait" => calls'[d] = calls[d]
      BY <2>2
    <3> QED BY <1>a, <3>1
  <2> QED BY <1>a, <2>3, <2>7, <2>8, <2>9 DEF AttachesOK
<1>2. ASSUME NEW c \in Caller, Sends(c) PROVE AttachesOK'
  <2>1. /\ UNCHANGED <<answer, handles, expired, shells>> /\ calls[c].pc = "send"
        /\ Frames' = Frames
    BY <1>2 DEF Sends, serverVars, Frames
  <2>2. /\ calls'[c].pc = "wait" /\ calls'[c].op = calls[c].op
        /\ calls'[c].seq = calls[c].seq /\ calls'[c].stream = calls[c].stream
        /\ \A d \in Caller : d # c => calls'[d] = calls[d]
    BY <1>2, SendsEffect
  <2>3. PICK r \in ReqFrame :
                 /\ r.seq = calls[c].seq /\ r.stream = calls[c].stream /\ r.method = calls[c].op
                 /\ Requests' = Requests \cup {r}
    BY <1>2, SendsEffect
  <2>4. \A d \in Caller : Busy(d)' = Busy(d)
    BY <2>1, <2>2 DEF Busy
  <2>5. \A d \in Caller : calls'[d].op = calls[d].op /\ calls'[d].seq = calls[d].seq
    BY <2>2
  <2>6. calls[c].op = "attach" => <<"attach", calls[c].seq>> \notin handles
    BY <2>1 DEF ShellsOK, Busy
  <2>7. Busy(c)
    BY <2>1 DEF Busy
  <2>8. \A f \in Requests' : f.method = "attach" =>
              /\ <<"attach", f.seq>> \notin handles
              /\ \/ f.seq \in expired
                 \/ \E d \in Caller : Busy(d)' /\ calls'[d].op = "attach" /\ calls'[d].seq = f.seq
    BY <1>a, <2>3, <2>4, <2>5, <2>6, <2>7
  <2>9. \A d \in Caller : calls'[d].pc = "wait" /\ calls'[d].op = "detach" =>
              \/ shells[calls'[d].stream] # "running"
              \/ \E f \in Requests' : f.seq = calls'[d].seq
    BY <1>a, <2>2, <2>3
  <2>10. \A d \in Caller : Busy(d)' /\ calls'[d].op = "attach" =>
              \/ shells[calls'[d].seq] # "running"
              \/ /\ answer[calls'[d].seq] \in {"empty", "ok"}
                 /\ \A g \in Frames : g.kind = "response" /\ g.seq = calls'[d].seq
                                         => g.status = "ok"
    BY <1>a, <2>4, <2>5
  <2> QED BY <2>1, <2>8, <2>9, <2>10 DEF AttachesOK
<1>3. ASSUME NEW c \in Caller, NEW status \in Status, Settles(c, status) PROVE AttachesOK'
  <2>1. Busy(c) /\ Settle(c, status)
    BY <1>3 DEF Settles
  <2>2. /\ calls'[c] = Idle /\ \A d \in Caller : d # c => calls'[d] = calls[d]
        /\ handles' = IF status = "ok" /\ calls[c].op \in {"attach", "watch"}
                      THEN handles \cup {<<calls[c].op, calls[c].stream>>} ELSE handles
        /\ shells' = shells
    BY <2>1, SettleEffect DEF serverVars
  <2>3. Requests' = Requests /\ Frames' = Frames
    BY <1>3 DEF Settles, linkVars, Requests, Frames
  <2>4. \A d \in Caller : Busy(d)' => d # c /\ Busy(d) /\ calls'[d] = calls[d]
    BY <2>2 DEF Busy, Idle
  <2>5. \A d \in Caller : d # c /\ Busy(d) => Busy(d)' /\ calls'[d] = calls[d]
    BY <2>2 DEF Busy
  <2>6. \/ answer[calls[c].seq] = status /\ expired' = expired
        \/ status = "canceled" /\ expired' = expired \cup {calls[c].seq}
    BY <1>3, <1>u DEF Settles
  <2>7. \A n \in Number : answer'[n] = answer[n] \/ answer'[n] = "empty"
    <3>1. answer' = answer \/ answer' = [answer EXCEPT ![calls[c].seq] = "empty"]
      BY <1>3 DEF Settles
    <3> QED BY <1>0, <3>1
  <2>8. \A f \in Requests : f.seq = calls[c].seq => status # "ok" /\ f.seq \in expired'
    <3>1. \A f \in Requests : answer[f.seq] = "empty"
      BY <1>u DEF InTurn
    <3>2. status # "empty"
      BY Numbers
    <3> QED BY <2>6, <3>1, <3>2
  <2>9. calls[c].op = "attach" => calls[c].stream = calls[c].seq
    BY <2>1 DEF ShellsOK
  <2>10. \A f \in Requests : f.method = "attach" =>
              /\ <<"attach", f.seq>> \notin handles'
              /\ \/ f.seq \in expired'
                 \/ \E d \in Caller : Busy(d)' /\ calls'[d].op = "attach" /\ calls'[d].seq = f.seq
    <3> SUFFICES ASSUME NEW f \in Requests, f.method = "attach"
                 PROVE  /\ <<"attach", f.seq>> \notin handles'
                        /\ \/ f.seq \in expired'
                           \/ \E d \in Caller : Busy(d)' /\ calls'[d].op = "attach"
                                                /\ calls'[d].seq = f.seq
      OBVIOUS
    <3>1. <<"attach", f.seq>> \notin handles'
      BY <1>a, <2>2, <2>8, <2>9
    <3>2. CASE f.seq \in expired
      BY <2>6, <3>1, <3>2
    <3>3. CASE \E d \in Caller : Busy(d) /\ calls[d].op = "attach" /\ calls[d].seq = f.seq
      <4>1. PICK d \in Caller : Busy(d) /\ calls[d].op = "attach" /\ calls[d].seq = f.seq
        BY <3>3
      <4>2. CASE d = c
        BY <2>8, <3>1, <4>1, <4>2
      <4>3. CASE d # c
        BY <2>5, <3>1, <4>1, <4>3
      <4> QED BY <4>2, <4>3
    <3> QED BY <1>a, <3>2, <3>3
  <2>11. \A d \in Caller : Busy(d)' /\ calls'[d].op = "attach" =>
              \/ shells[calls'[d].seq] # "running"
              \/ /\ answer'[calls'[d].seq] \in {"empty", "ok"}
                 /\ \A g \in Frames : g.kind = "response" /\ g.seq = calls'[d].seq
                                         => g.status = "ok"
    BY <1>0, <1>a, <2>4, <2>7
  <2>12. \A d \in Caller : calls'[d].pc = "wait" /\ calls'[d].op = "detach" =>
              \/ shells[calls'[d].stream] # "running"
              \/ \E f \in Requests : f.seq = calls'[d].seq
    BY <1>a, <2>4 DEF Busy
  <2> QED BY <2>2, <2>3, <2>10, <2>11, <2>12 DEF AttachesOK
<1>4. CASE Takes
  <2>1. UNCHANGED <<answer, handles, expired, shells, calls, toServer, toClient>>
    BY <1>4 DEF Takes, serverVars, linkVars
  <2> QED BY <1>a, <2>1 DEF AttachesOK, Requests, Frames, Busy
<1>5. ASSUME NEW n \in Number, Aborts(n) PROVE AttachesOK'
  <2>1. UNCHANGED <<answer, handles, expired, shells, calls>> /\ Frames' = Frames
    BY <1>5 DEF Aborts, serverVars, Frames
  <2>2. Requests \subseteq Requests' /\ \A f \in Requests' : f.method = "attach" => f \in Requests
    BY <1>5 DEF Aborts, Requests
  <2> QED BY <1>a, <2>1, <2>2 DEF AttachesOK, Busy
<1>6. ASSUME NEW f \in Frame, Reads(f) PROVE AttachesOK'
  <2>1. /\ f \in Frames /\ Frames' \subseteq Frames
        /\ UNCHANGED <<handles, expired, shells, calls>> /\ Requests' = Requests
    BY <1>6 DEF Reads, serverVars, Requests
  <2>2. \A n \in Number : answer'[n] = answer[n] \/ (f.kind = "response" /\ n = f.seq
                                                     /\ answer'[n] = f.status)
    BY <1>0, <1>6 DEF Reads
  <2>3. \A d \in Caller : Busy(d) /\ calls[d].op = "attach" =>
              \/ shells[calls[d].seq] # "running"
              \/ /\ answer'[calls[d].seq] \in {"empty", "ok"}
                 /\ \A g \in Frames' : g.kind = "response" /\ g.seq = calls[d].seq
                                         => g.status = "ok"
    BY <1>0, <1>a, <2>1, <2>2
  <2> QED BY <1>a, <2>1, <2>3 DEF AttachesOK, Busy
<1>7. CASE FailsAll \/ LinkDown
  <2>1. ~Usable'
    BY <1>7 DEF FailsAll, LinkDown, Usable
  <2> QED BY <2>1
<1>8. ASSUME NEW f \in ReqFrame, NEW status \in Status, NEW E \in SUBSET StreamFrame,
             Serves(f, status, E)
      PROVE  AttachesOK'
  <2>1. /\ f \in Requests /\ Requests' \subseteq Requests
        /\ \A g \in Requests : g = f \/ g \in Requests'
        /\ UNCHANGED <<answer, handles, expired, calls>>
        /\ Frames' = Frames \cup E \cup {Response(f.seq, status)}
        /\ \A g \in E : g.kind = "watch"
    BY <1>8, <1>u DEF Serves, clientVars
  <2>2. /\ \A n \in Number : shells'[n] = "running" =>
              \/ shells[n] = "running"
              \/ f.method = "attach" /\ f.stream = n /\ status = "ok"
        /\ f.method = "detach" => shells'[f.stream] # "running"
    BY <1>8, ServeShells
  <2>3. /\ f.seq \in Number /\ Response(f.seq, status).seq = f.seq
        /\ Response(f.seq, status).status = status
    BY FrameTypes DEF ReqFrame
  <2>4. f.method = "attach" => f.stream = f.seq /\ shells[f.seq] = "none"
    BY <2>1 DEF ShellsOK
  <2>5. \A d \in Caller : Busy(d) /\ calls[d].seq = f.seq =>
           calls[d].op = f.method /\ calls[d].stream = f.stream
    BY <2>1 DEF InTurn
  <2>6. answer[f.seq] = "empty" /\ \A g \in Frames : g.seq # f.seq
    BY <1>u, <2>1 DEF InTurn
  <2>7. ASSUME NEW d \in Caller, Busy(d), calls[d].op = "attach", shells'[calls[d].seq] = "running"
        PROVE  /\ answer[calls[d].seq] \in {"empty", "ok"}
               /\ \A g \in Frames' : g.kind = "response" /\ g.seq = calls[d].seq
                                       => g.status = "ok"
    <3>1. CASE calls[d].seq = f.seq
      <4>1. status = "ok"
        BY <1>0, <2>2, <2>4, <2>5, <2>7, <3>1
      <4> QED BY <2>1, <2>3, <2>6, <3>1, <4>1
    <3>2. CASE calls[d].seq # f.seq
      <4>1. shells[calls[d].seq] = "running"
        BY <1>0, <2>2, <2>4, <2>7, <3>2
      <4> QED BY <1>a, <2>1, <2>3, <2>7, <3>2, <4>1
    <3> QED BY <3>1, <3>2
  <2>8. ASSUME NEW d \in Caller, calls[d].pc = "wait", calls[d].op = "detach",
               shells'[calls[d].stream] = "running"
        PROVE  \E g \in Requests' : g.seq = calls[d].seq
    <3>1. Busy(d) /\ calls[d].stream \in Number /\ <<"attach", calls[d].stream>> \in handles
      BY <1>0, <2>8 DEF Busy, ShellsOK
    <3>2. shells[calls[d].stream] = "running"
      BY <1>a, <2>1, <2>2, <2>4, <2>8, <3>1
    <3>3. PICK g \in Requests : g.seq = calls[d].seq
      BY <1>a, <2>8, <3>2
    <3>4. g # f
      BY <2>2, <2>5, <2>8, <3>1, <3>3
    <3> QED BY <2>1, <3>3, <3>4
  <2>9. \A g \in Requests' : g.method = "attach" =>
              /\ <<"attach", g.seq>> \notin handles
              /\ \/ g.seq \in expired
                 \/ \E c \in Caller : Busy(c) /\ calls[c].op = "attach" /\ calls[c].seq = g.seq
    BY <1>a, <2>1
  <2> QED BY <2>1, <2>7, <2>8, <2>9 DEF AttachesOK, Busy
<1>9. CASE Guest
  <2>1. /\ UNCHANGED <<answer, handles, expired, calls>> /\ toServer' = toServer
        /\ \A g \in Frames' : g \in Frames \/ g.kind # "response"
        /\ \A n \in Number : shells'[n] = "running" => shells[n] = "running"
    BY <1>9, <1>u DEF Guest, clientVars
  <2>2. Requests' = Requests
    BY <2>1 DEF Requests
  <2>3. /\ \A d \in Caller : Busy(d) /\ calls[d].op = "attach" =>
              \/ shells'[calls[d].seq] # "running"
              \/ /\ answer[calls[d].seq] \in {"empty", "ok"}
                 /\ \A g \in Frames' : g.kind = "response" /\ g.seq = calls[d].seq
                                         => g.status = "ok"
        /\ \A d \in Caller : calls[d].pc = "wait" /\ calls[d].op = "detach" =>
              \/ shells'[calls[d].stream] # "running"
              \/ \E f \in Requests : f.seq = calls[d].seq
    BY <1>0, <1>a, <2>1 DEF Busy
  <2> QED BY <1>a, <2>1, <2>2, <2>3 DEF AttachesOK, Busy
<1> QED BY <1>1, <1>2, <1>3, <1>4, <1>5, <1>6, <1>7, <1>8, <1>9 DEF Step

LEMMA OwnerStep ==
    ASSUME TypeOK, InTurn, ShellsOK, AttachesOK, ShellHasOwner, Step
    PROVE  ShellHasOwner'
<1> SUFFICES ASSUME Usable', NEW n \in Number, shells'[n] = "running"
             PROVE  Owned(n)' \/ n \in expired'
  BY DEF ShellHasOwner, Usable
<1>u. Usable /\ up /\ ~client.closed
  BY UsableStep DEF Usable
<1>h. shells[n] = "running" => Owned(n) \/ n \in expired
  BY <1>u DEF ShellHasOwner
<1>1. ASSUME NEW c \in Caller, NEW op \in Methods, NEW k \in 0 .. last, Begins(c, op, k)
      PROVE  Owned(n)' \/ n \in expired'
  <2>1. Begin(c, op, k)
    BY <1>1 DEF Begins
  <2>2. /\ calls'[c].op = op /\ calls'[c].stream = IF k = Nothing THEN last + 1 ELSE k
        /\ \A d \in Caller : d # c => calls'[d] = calls[d]
        /\ calls[c].pc = "idle"
    BY <2>1, BeginEffect
  <2>3. UNCHANGED <<handles, expired, shells>>
    BY <2>1 DEF Begin, serverVars
  <2>4. terms'[n].closed => terms[n].closed \/ (op = "detach" /\ n = k)
    BY <1>1 DEF Begins
  <2>5. calls[c].op = "none"
    BY <2>2 DEF TypeOK, Busy, Idle
  <2>6. CASE <<"attach", n>> \in handles /\ ~terms[n].closed
    <3>1. CASE op = "detach" /\ n = k
      BY <2>2, <3>1, Numbers DEF Owned
    <3>2. CASE ~(op = "detach" /\ n = k)
      BY <2>3, <2>4, <2>6, <3>2 DEF Owned
    <3> QED BY <3>1, <3>2
  <2>7. ASSUME NEW d \in Caller, calls[d].stream = n, calls[d].op \in {"attach", "detach"}
        PROVE  Owned(n)'
    BY <2>2, <2>5, <2>7 DEF Owned
  <2> QED BY <1>h, <2>3, <2>6, <2>7 DEF Owned
<1>2. ASSUME NEW c \in Caller, Sends(c) PROVE Owned(n)' \/ n \in expired'
  <2>1. UNCHANGED <<terms, handles, expired, shells>>
    BY <1>2 DEF Sends, serverVars
  <2>2. \A d \in Caller : calls'[d].op = calls[d].op /\ calls'[d].stream = calls[d].stream
    BY <1>2, SendsEffect
  <2> QED BY <1>h, <2>1, <2>2 DEF Owned
<1>3. ASSUME NEW c \in Caller, NEW status \in Status, Settles(c, status)
      PROVE  Owned(n)' \/ n \in expired'
  <2>1. Busy(c) /\ Settle(c, status)
    BY <1>3 DEF Settles
  <2>2. /\ \A d \in Caller : d # c => calls'[d] = calls[d]
        /\ handles' = IF status = "ok" /\ calls[c].op \in {"attach", "watch"}
                      THEN handles \cup {<<calls[c].op, calls[c].stream>>} ELSE handles
        /\ \A m \in Number : terms'[m].closed = terms[m].closed
        /\ shells' = shells
    BY <2>1, SettleEffect DEF serverVars
  <2>3. \/ /\ answer[calls[c].seq] = status /\ expired' = expired /\ calls[c].pc = "wait"
        \/ calls[c].op # "detach" /\ expired' = expired \cup {calls[c].seq}
    BY <1>3, <1>u DEF Settles
  <2>4. CASE n \in expired
    BY <2>3, <2>4
  <2>5. CASE <<"attach", n>> \in handles /\ ~terms[n].closed
    BY <2>2, <2>5 DEF Owned
  <2>6. ASSUME NEW d \in Caller, d # c, calls[d].stream = n, calls[d].op \in {"attach", "detach"}
        PROVE  Owned(n)'
    BY <2>2, <2>6 DEF Owned
  <2>7. CASE calls[c].stream = n /\ calls[c].op = "attach"
    <3>1. calls[c].seq = n /\ <<"attach", n>> \notin handles
      BY <2>1, <2>7 DEF ShellsOK
    <3>2. ~terms[n].closed
      BY <3>1 DEF ShellsOK
    <3>3. CASE answer[calls[c].seq] = status
      <4>1. answer[n] \in {"empty", "ok"}
        BY <1>u, <2>1, <2>2, <2>7, <3>1 DEF AttachesOK
      <4>2. status = "ok"
        BY <3>1, <3>3, <4>1, Numbers
      <4> QED BY <2>2, <2>7, <3>2, <4>2 DEF Owned
    <3> QED BY <2>3, <3>1, <3>3
  <2>8. CASE calls[c].stream = n /\ calls[c].op = "detach"
    <3>1. answer[calls[c].seq] = status /\ calls[c].pc = "wait"
      BY <2>3, <2>8
    <3>2. PICK f \in Requests : f.seq = calls[c].seq
      BY <1>u, <2>2, <2>8, <3>1 DEF AttachesOK
    <3>3. answer[f.seq] = "empty"
      BY <1>u DEF InTurn
    <3> QED BY <3>1, <3>2, <3>3, Numbers
  <2> QED BY <1>h, <2>2, <2>4, <2>5, <2>6, <2>7, <2>8 DEF Owned
<1>4. CASE Takes \/ \E k \in Number : Aborts(k)
  <2>1. UNCHANGED <<terms, handles, expired, shells, calls>>
    BY <1>4 DEF Takes, Aborts, serverVars
  <2> QED BY <1>h, <2>1 DEF Owned
<1>5. CASE FailsAll \/ \E f \in Frame : Reads(f)
  <2>1. UNCHANGED <<handles, expired, shells, calls>>
        /\ \A m \in Number : terms'[m].closed = terms[m].closed
    BY <1>5 DEF Reads, FailsAll, serverVars
  <2> QED BY <1>h, <2>1 DEF Owned
<1>6. CASE LinkDown
  BY <1>6 DEF LinkDown, Usable
<1>7. ASSUME NEW f \in ReqFrame, NEW status \in Status, NEW E \in SUBSET StreamFrame,
             Serves(f, status, E)
      PROVE  Owned(n)' \/ n \in expired'
  <2>1. f \in Requests /\ UNCHANGED <<handles, terms, expired, calls>>
    BY <1>7 DEF Serves, clientVars
  <2>2. shells[n] = "running" \/ (f.method = "attach" /\ f.stream = n)
    BY <1>7, ServeShells
  <2>3. CASE shells[n] = "running"
    BY <1>h, <2>1, <2>3 DEF Owned
  <2>4. CASE f.method = "attach" /\ f.stream = n
    <3>1. f.seq = n
      BY <2>1, <2>4 DEF ShellsOK
    <3>2. CASE n \in expired
      BY <2>1, <3>2
    <3>3. CASE n \notin expired
      <4>1. PICK d \in Caller : Busy(d) /\ calls[d].op = "attach" /\ calls[d].seq = n
        BY <1>u, <2>1, <2>4, <3>1, <3>3 DEF AttachesOK
      <4>2. calls[d].stream = n
        BY <4>1 DEF ShellsOK
      <4> QED BY <2>1, <4>1, <4>2 DEF Owned
    <3> QED BY <3>2, <3>3
  <2> QED BY <2>2, <2>3, <2>4
<1>8. CASE Guest
  <2>1. UNCHANGED <<handles, terms, expired, calls>> /\ shells[n] = "running"
    BY <1>8 DEF Guest, clientVars
  <2> QED BY <1>h, <2>1 DEF Owned
<1> QED BY <1>1, <1>2, <1>3, <1>4, <1>5, <1>6, <1>7, <1>8 DEF Step

----------------------------------------------------------------------------
(* The observations.                                                       *)

\* An observation that failed stays so.
LEMMA EndedStays == ASSUME TypeOK, Step, NEW n \in Number, Ended(n) PROVE Ended(n)'
<1>1. ASSUME NEW c \in Caller, NEW status \in Status, Settles(c, status) PROVE Ended(n)'
  BY <1>1, SettleEffect DEF Settles
<1>2. CASE \/ \E c \in Caller, op \in Methods, k \in 0 .. last : Begins(c, op, k)
           \/ (\E f \in Frame : Reads(f)) \/ FailsAll
  BY <1>2 DEF Begins, Reads, FailsAll
<1>3. CASE Takes
  BY <1>3 DEF Takes, Ended
<1>4. CASE \/ \E c \in Caller : Sends(c)
           \/ (\E k \in Number : Aborts(k)) \/ LinkDown
           \/ \E f \in ReqFrame, status \in Status, E \in SUBSET StreamFrame : Serves(f, status, E)
           \/ Guest
  <2>1. obs' = obs
    BY <1>4 DEF Sends, Aborts, LinkDown, Serves, Guest, clientVars
  <2> QED BY <2>1 DEF Ended
<1> QED BY <1>1, <1>2, <1>3, <1>4 DEF Step

LEMMA ObsStep == ASSUME TypeOK, ObsOK, Step PROVE ObsOK'
<1>0. /\ last \in Nat /\ Nothing \notin Number
      /\ \A c \in Caller : Busy(c) => calls[c].seq \in Number /\ calls[c].stream \in Number
      /\ \A f \in Requests : f.seq \in Number /\ f.stream \in Number
      /\ aborting \subseteq Number
  BY TypeParts, Numbers DEF TypeOK, ReqFrame
<1>e. \A n \in Number : Ended(n) => Ended(n)'
  BY EndedStays
<1>o. /\ \A c \in Caller : Busy(c) /\ calls[c].op = "watch" => calls[c].stream = calls[c].seq
      /\ \A f \in Requests : f.method = "watch" => f.stream = f.seq
      /\ \A n \in Number : (<<"watch", n>> \in handles \/ Opening(n)) /\ ~Ended(n)
            => client.obs = n
      /\ \A n \in aborting : Ended(n)
      /\ \A c \in Caller : Busy(c) /\ calls[c].op = "unwatch" => Ended(calls[c].stream)
      /\ \A f \in Requests : f.method = "unwatch" => Ended(f.stream)
  BY DEF ObsOK
<1>r. /\ \A n \in aborting : Ended(n)'
      /\ \A c \in Caller : Busy(c) /\ calls[c].op = "unwatch" =>
            \A m \in Number : m = calls[c].stream => Ended(m)'
      /\ \A f \in Requests : f.method = "unwatch" => \A m \in Number : m = f.stream => Ended(m)'
  BY <1>0, <1>e, <1>o
<1>1. ASSUME NEW c \in Caller, NEW op \in Methods, NEW n \in 0 .. last, Begins(c, op, n)
      PROVE  ObsOK'
  <2>1. Begin(c, op, n)
    BY <1>1 DEF Begins
  <2>2. /\ last + 1 \in Number /\ calls'[c].pc = "send" /\ calls'[c].op = op
        /\ calls'[c].seq = last + 1
        /\ calls'[c].stream = IF n = Nothing THEN last + 1 ELSE n
        /\ \A d \in Caller : d # c => calls'[d] = calls[d]
        /\ calls[c].pc = "idle"
    BY <2>1, BeginEffect
  <2>3. UNCHANGED <<handles, aborting>> /\ Requests' = Requests
    BY <2>1 DEF Begin, linkVars, Requests
  <2>4. \A d \in Caller : Busy(d)' => d = c \/ (Busy(d) /\ calls'[d] = calls[d])
    BY <2>2 DEF Busy
  <2>5. /\ op = "watch" => n = Nothing /\ client.obs = Nothing /\ client'.obs = last + 1
        /\ op # "watch" => client'.obs = client.obs
        /\ op = "unwatch" => <<"watch", n>> \in handles /\ \A m \in Number : m = n => Ended(m)'
    BY <1>1 DEF Begins
  <2>6. op = "unwatch" => n \in Number
    BY <2>5, TypeParts DEF TypeOK
  <2>7. \A d \in Caller : Busy(d)' /\ calls'[d].op = "watch" => calls'[d].stream = calls'[d].seq
    BY <1>o, <2>2, <2>4, <2>5
  <2>8. \A d \in Caller : Busy(d)' /\ calls'[d].op = "unwatch" =>
           \A m \in Number : m = calls'[d].stream => Ended(m)'
    <3>1. op = "unwatch" => \A m \in Number : m = calls'[c].stream => Ended(m)'
      BY <1>0, <2>2, <2>5, <2>6
    <3> QED BY <1>r, <2>2, <2>4, <3>1
  <2>9. \A m \in Number : Opening(m)' => Opening(m) \/ (op = "watch" /\ m = last + 1)
    BY <2>2, <2>4 DEF Opening
  <2>10. \A m \in Number : (<<"watch", m>> \in handles \/ Opening(m)') /\ ~Ended(m)'
            => client'.obs = m
    <3> SUFFICES ASSUME NEW m \in Number, <<"watch", m>> \in handles \/ Opening(m)', ~Ended(m)'
                 PROVE  client'.obs = m
      OBVIOUS
    <3>1. CASE op = "watch" /\ m = last + 1
      BY <2>5, <3>1
    <3>2. CASE ~(op = "watch" /\ m = last + 1)
      <4>1. client.obs = m
        BY <1>e, <1>o, <2>9, <3>2
      <4> QED BY <1>0, <2>5, <4>1
    <3> QED BY <3>1, <3>2
  <2>11. \A d \in Caller : Busy(d)' /\ calls'[d].op = "unwatch" => calls'[d].stream \in Number
    BY <1>0, <2>2, <2>4, <2>6
  <2>12. \A d \in Caller : Busy(d)' /\ calls'[d].op = "unwatch" => Ended(calls[d].stream)'
    BY <2>8, <2>11
  <2>13. \A f \in Requests' : f.method = "unwatch" => Ended(f.stream)'
    BY <1>0, <1>r, <2>3
  <2> QED BY <1>o, <1>r, <2>3, <2>7, <2>10, <2>12, <2>13 DEF ObsOK
<1>2. ASSUME NEW c \in Caller, Sends(c) PROVE ObsOK'
  <2>1. UNCHANGED <<client, obs, handles, aborting>> /\ calls[c].pc = "send"
    BY <1>2 DEF Sends
  <2>2. /\ calls'[c].pc = "wait"
        /\ \A d \in Caller : d # c => calls'[d] = calls[d]
    BY <1>2, SendsEffect
  <2>3. \A d \in Caller : /\ calls'[d].op = calls[d].op /\ calls'[d].seq = calls[d].seq
                          /\ calls'[d].stream = calls[d].stream
    BY <1>2, SendsEffect
  <2>4. PICK r \in ReqFrame :
                 /\ r.seq = calls[c].seq /\ r.stream = calls[c].stream /\ r.method = calls[c].op
                 /\ Requests' = Requests \cup {r}
    BY <1>2, SendsEffect
  <2>5. Busy(c) /\ \A d \in Caller : Busy(d)' = Busy(d)
    BY <2>1, <2>2 DEF Busy
  <2>6. \A m \in Number : Opening(m)' => Opening(m)
    BY <2>3, <2>5 DEF Opening
  <2>7. \A m : Ended(m)' <=> Ended(m)
    BY <2>1 DEF Ended
  <2>8. /\ \A f \in Requests' : f.method = "watch" => f.stream = f.seq
        /\ \A f \in Requests' : f.method = "unwatch" => Ended(f.stream)
    BY <1>o, <2>4, <2>5
  <2>9. \A d \in Caller : Busy(d)' /\ calls'[d].op = "unwatch" => Ended(calls[d].stream)'
    BY <1>o, <2>1, <2>3, <2>5 DEF Ended
  <2> QED BY <1>o, <2>1, <2>3, <2>5, <2>6, <2>7, <2>8, <2>9 DEF ObsOK
<1>3. ASSUME NEW c \in Caller, NEW status \in Status, Settles(c, status) PROVE ObsOK'
  <2>1. Busy(c) /\ Settle(c, status)
    BY <1>3 DEF Settles
  <2>2. /\ calls'[c] = Idle /\ \A d \in Caller : d # c => calls'[d] = calls[d]
        /\ handles' = IF status = "ok" /\ calls[c].op \in {"attach", "watch"}
                      THEN handles \cup {<<calls[c].op, calls[c].stream>>} ELSE handles
        /\ client'.obs = IF \/ calls[c].op = "unwatch"
                            \/ calls[c].op = "watch" /\ status # "ok"
                         THEN ObsWithout(calls[c].stream) ELSE client.obs
        /\ calls[c].op = "watch" /\ status # "ok"
              => \A m \in Number : m = calls[c].stream => Ended(m)'
        /\ aborting' = aborting
    BY <2>1, SettleEffect
  <2>3. Requests' = Requests
    BY <1>3 DEF Settles, linkVars, Requests
  <2>4. \A d \in Caller : Busy(d)' => d # c /\ Busy(d) /\ calls'[d] = calls[d]
    BY <2>2 DEF Busy, Idle
  <2>5. \A m \in Number : <<"watch", m>> \in handles' => <<"watch", m>> \in handles \/ Opening(m)
    BY <1>o, <2>1, <2>2 DEF Opening
  <2>6. \A m \in Number : Opening(m)' => Opening(m)
    BY <2>4 DEF Opening
  <2>7. \A m \in Number : (<<"watch", m>> \in handles' \/ Opening(m)') /\ ~Ended(m)'
            => client'.obs = m
    <3> SUFFICES ASSUME NEW m \in Number, <<"watch", m>> \in handles' \/ Opening(m)', ~Ended(m)'
                 PROVE  client'.obs = m
      OBVIOUS
    <3>1. client.obs = m
      BY <1>e, <1>o, <2>5, <2>6
    <3>2. CASE calls[c].op = "unwatch" \/ (calls[c].op = "watch" /\ status # "ok")
      <4>1. m # calls[c].stream
        BY <1>r, <2>1, <2>2, <3>2
      <4> QED BY <2>2, <3>1, <3>2, <4>1 DEF ObsWithout
    <3> QED BY <2>2, <3>1, <3>2
  <2>8. \A d \in Caller : Busy(d)' /\ calls'[d].op = "watch" => calls'[d].stream = calls'[d].seq
    BY <1>o, <2>4
  <2>9. \A d \in Caller : Busy(d)' /\ calls'[d].op = "unwatch" => Ended(calls[d].stream)'
    <3>1. \A d \in Caller : Busy(d)' /\ calls'[d].op = "unwatch" =>
             \A m \in Number : m = calls'[d].stream => Ended(m)'
      BY <1>r, <2>4
    <3>2. \A d \in Caller : Busy(d)' => calls'[d].stream \in Number
      BY <1>0, <2>4
    <3> QED BY <3>1, <3>2
  <2>10. \A f \in Requests' : f.method = "unwatch" => Ended(f.stream)'
    BY <1>0, <1>r, <2>3
  <2> QED BY <1>o, <1>r, <2>2, <2>3, <2>7, <2>8, <2>9, <2>10 DEF ObsOK
<1>4. CASE Takes
  <2>1. UNCHANGED <<client, calls, handles, aborting>> /\ Requests' = Requests
    BY <1>4 DEF Takes, linkVars, Requests
  <2>2. \A m \in Number : Ended(m)' <=> Ended(m)
    BY <1>4 DEF Takes, Ended
  <2>3. \A d \in Caller : Busy(d) /\ calls[d].op = "unwatch" => Ended(calls[d].stream)'
    BY <1>0, <1>r, <2>1
  <2> QED BY <1>0, <1>o, <1>r, <2>1, <2>2, <2>3 DEF ObsOK, Opening, Busy
<1>5. ASSUME NEW n \in Number, Aborts(n) PROVE ObsOK'
  <2>1. /\ UNCHANGED <<client, calls, handles, obs>> /\ aborting' \subseteq aborting
        /\ n \in aborting
    BY <1>5 DEF Aborts
  <2>2. \A f \in Requests' : f \in Requests \/ (f.method = "unwatch" /\ f.stream = n)
    BY <1>5 DEF Aborts, Requests
  <2>3. \A f \in Requests' : /\ f.method = "watch" => f.stream = f.seq
                             /\ f.method = "unwatch" => Ended(f.stream)
    BY <1>o, <2>1, <2>2
  <2> QED BY <1>o, <2>1, <2>3 DEF ObsOK, Opening, Busy, Ended
<1>6. ASSUME UNCHANGED <<calls, handles>>, Requests' \subseteq Requests,
             \A m \in aborting' : m \in Number /\ (m \in aborting \/ Ended(m)'),
             \A m \in Number : client.obs = m => client'.obs = m \/ Ended(m)'
      PROVE  ObsOK'
  <2>1. \A m \in Number : Opening(m)' <=> Opening(m)
    BY <1>6 DEF Opening, Busy
  <2>2. \A m \in Number : (<<"watch", m>> \in handles' \/ Opening(m)') /\ ~Ended(m)'
            => client'.obs = m
    BY <1>e, <1>o, <1>6, <2>1
  <2>3. \A m \in aborting' : Ended(m)'
    BY <1>6, <1>r
  <2>4. \A d \in Caller : Busy(d)' /\ calls'[d].op = "unwatch" => Ended(calls[d].stream)'
    BY <1>0, <1>6, <1>r DEF Busy
  <2>5. \A f \in Requests' : f.method = "unwatch" => Ended(f.stream)'
    BY <1>0, <1>6, <1>r
  <2>6. /\ \A d \in Caller : Busy(d)' /\ calls'[d].op = "watch" => calls'[d].stream = calls'[d].seq
        /\ \A f \in Requests' : f.method = "watch" => f.stream = f.seq
    BY <1>o, <1>6 DEF Busy
  <2> QED BY <2>2, <2>3, <2>4, <2>5, <2>6 DEF ObsOK
<1>7. ASSUME NEW f \in Frame, Reads(f) PROVE ObsOK'
  <2>1. Requests' = Requests
    BY <1>7 DEF Reads, Requests
  <2>2. /\ UNCHANGED <<calls, handles>>
        /\ \A m \in aborting' : m \in Number /\ (m \in aborting \/ Ended(m)')
        /\ \A m \in Number : client.obs = m => client'.obs = m \/ Ended(m)'
    BY <1>7 DEF Reads
  <2> QED BY <1>6, <2>1, <2>2
<1>8. CASE FailsAll
  <2>1. Requests' = Requests
    BY <1>8 DEF FailsAll, Requests
  <2>2. /\ UNCHANGED <<calls, handles, aborting>>
        /\ \A m \in Number : client.obs = m => client'.obs = m \/ Ended(m)'
    BY <1>8 DEF FailsAll
  <2> QED BY <1>0, <1>6, <2>1, <2>2
<1>9. CASE \/ LinkDown \/ Guest
           \/ \E f \in ReqFrame, status \in Status, E \in SUBSET StreamFrame : Serves(f, status, E)
  <2>1. UNCHANGED <<client, calls, handles, aborting>>
    BY <1>9 DEF LinkDown, Guest, Serves, clientVars
  <2>2. Requests' \subseteq Requests
    <3>1. Guest => Requests' \subseteq Requests
      BY DEF Guest, Requests, Elements
    <3> QED BY <1>9, <3>1 DEF LinkDown, Serves, Requests
  <2> QED BY <1>0, <1>6, <2>1, <2>2
<1> QED BY <1>1, <1>2, <1>3, <1>4, <1>5, <1>7, <1>8, <1>9 DEF Step

LEMMA GrantedStep ==
    ASSUME TypeOK, InTurn, ObsOK, GrantedOK, Step
    PROVE  GrantedOK'
<1> SUFFICES ASSUME up', NEW n \in Number, Granted(n)', ~Ended(n)' PROVE Watched(n)'
  BY DEF GrantedOK
<1>e. ~Ended(n)
  BY EndedStays
<1>g. up /\ Granted(n) => Watched(n)
  BY <1>e DEF GrantedOK
<1>o. Granted(n) => client.obs = n
  BY <1>e DEF Granted, ObsOK
<1>0. /\ last \in Nat /\ answer \in [Number -> Status \cup {"empty"}]
      /\ \A c \in Caller : Busy(c) => calls[c].seq \in Number
  BY TypeParts DEF TypeOK
<1>1. ASSUME NEW c \in Caller, NEW op \in Methods, NEW k \in 0 .. last, Begins(c, op, k)
      PROVE  Watched(n)'
  <2>1. Begin(c, op, k)
    BY <1>1 DEF Begins
  <2>2. /\ last + 1 \in Number /\ calls'[c].seq = last + 1
        /\ \A d \in Caller : d # c => calls'[d] = calls[d]
    BY <2>1, BeginEffect
  <2>3. UNCHANGED <<answer, handles, server, up>> /\ Frames' = Frames
    BY <2>1 DEF Begin, serverVars, linkVars, Frames
  <2>4. answer[last + 1] = "empty" /\ \A g \in Frames : g.seq # last + 1
    BY <1>0, <2>2 DEF InTurn
  <2>5. Opening(n)' => Opening(n) \/ n = last + 1
    BY <2>2 DEF Opening, Busy
  <2>6. Granted(n)
    BY <2>3, <2>4, <2>5 DEF Granted
  <2> QED BY <1>g, <2>3, <2>6 DEF Watched
<1>2. ASSUME NEW c \in Caller, Sends(c) PROVE Watched(n)'
  <2>1. UNCHANGED <<answer, handles, server, up>> /\ Frames' = Frames /\ calls[c].pc = "send"
    BY <1>2 DEF Sends, serverVars, Frames
  <2>2. \A d \in Caller : calls'[d].op = calls[d].op /\ calls'[d].seq = calls[d].seq
    BY <1>2, SendsEffect
  <2>3. \A d \in Caller : Busy(d)' => Busy(d)
    BY <1>2, <2>1, SendsEffect DEF Busy
  <2>4. Opening(n)' => Opening(n)
    BY <2>2, <2>3 DEF Opening
  <2> QED BY <1>g, <2>1, <2>4 DEF Granted, Watched
<1>3. ASSUME NEW c \in Caller, NEW status \in Status, Settles(c, status) PROVE Watched(n)'
  <2>1. Busy(c) /\ Settle(c, status)
    BY <1>3 DEF Settles
  <2>2. /\ calls'[c] = Idle /\ \A d \in Caller : d # c => calls'[d] = calls[d]
        /\ handles' = IF status = "ok" /\ calls[c].op \in {"attach", "watch"}
                      THEN handles \cup {<<calls[c].op, calls[c].stream>>} ELSE handles
        /\ server' = server
    BY <2>1, SettleEffect DEF serverVars
  <2>3. up' = up /\ Frames' = Frames
    BY <1>3 DEF Settles, linkVars, Frames
  <2>4. \A d \in Caller : Busy(d)' => Busy(d) /\ calls'[d] = calls[d]
    BY <2>2 DEF Busy, Idle
  <2>5. Opening(n)' => Opening(n)
    BY <2>4 DEF Opening
  <2>6. answer'[n] = answer[n] \/ answer'[n] = "empty"
    <3>1. answer' = answer \/ answer' = [answer EXCEPT ![calls[c].seq] = "empty"]
      BY <1>3 DEF Settles
    <3> QED BY <1>0, <3>1
  <2>7. <<"watch", n>> \in handles' =>
           \/ <<"watch", n>> \in handles
           \/ Opening(n) /\ answer[n] = "ok"
    <3>1. calls[c].op = "watch" => calls[c].stream = calls[c].seq
      BY <2>1 DEF ObsOK
    <3>2. status = "ok" => answer[calls[c].seq] = "ok"
      BY <1>3 DEF Settles
    <3> QED BY <2>1, <2>2, <3>1, <3>2 DEF Opening
  <2>8. Granted(n)
    BY <2>3, <2>5, <2>6, <2>7 DEF Granted
  <2> QED BY <1>g, <2>2, <2>3, <2>8 DEF Watched
<1>4. CASE Takes \/ \E k \in Number : Aborts(k)
  <2>1. UNCHANGED <<answer, calls, handles, server, up, toClient>>
    BY <1>4 DEF Takes, Aborts, serverVars, linkVars
  <2> QED BY <1>g, <2>1 DEF Granted, Watched, Opening, Busy, Frames
<1>5. ASSUME NEW f \in Frame, Reads(f) PROVE Watched(n)'
  <2>1. /\ up /\ Frames = Frames' \cup {f} /\ UNCHANGED <<calls, handles, server>>
    BY <1>5 DEF Reads, serverVars
  <2>2. \/ answer'[n] = answer[n]
        \/ f.kind = "response" /\ f.seq = n /\ answer'[n] = f.status
    BY <1>0, <1>5 DEF Reads
  <2>3. Opening(n)' <=> Opening(n)
    BY <2>1 DEF Opening, Busy
  <2>4. Granted(n)
    BY <2>1, <2>2, <2>3 DEF Granted
  <2>5. Watched(n) /\ client.obs = n
    BY <1>g, <1>o, <2>1, <2>4
  <2>6. ~(f.kind = "watch" /\ f.status # "ok" /\ f.stream = n)
    BY <1>5, <2>5 DEF Reads
  <2> QED BY <2>1, <2>5, <2>6 DEF Watched
<1>6. CASE FailsAll
  <2>1. /\ UNCHANGED <<calls, handles>>
        /\ client.obs = n => Ended(n)'
    BY <1>6 DEF FailsAll
  <2>2. <<"watch", n>> \in handles \/ Opening(n)
    BY <2>1 DEF Granted, Opening, Busy
  <2>3. client.obs = n
    BY <1>e, <2>2 DEF ObsOK
  <2> QED BY <2>1, <2>3
<1>7. CASE LinkDown
  BY <1>7 DEF LinkDown
<1>8. ASSUME NEW f \in ReqFrame, NEW status \in Status, NEW E \in SUBSET StreamFrame,
             Serves(f, status, E)
      PROVE  Watched(n)'
  <2>1. /\ f \in Requests /\ UNCHANGED <<calls, handles, answer, up>>
    BY <1>8 DEF Serves, clientVars
  <2>2. /\ Frames' = Frames \cup E \cup {Response(f.seq, status)}
        /\ \A g \in E : g.kind = "watch"
        /\ f.method = "watch" /\ status = "ok" => server'.watching /\ server'.watchStream = f.stream
        /\ Watched(n) => Watched(n)' \/ (f.method = "unwatch" /\ f.stream = n)
    BY <1>8, <2>1 DEF Serves
  <2>3. /\ f.seq \in Number /\ Response(f.seq, status).seq = f.seq
        /\ Response(f.seq, status).status = status
    BY FrameTypes DEF ReqFrame
  <2>4. Opening(n)' <=> Opening(n)
    BY <2>1 DEF Opening, Busy
  <2>5. CASE Granted(n)
    <3>1. Watched(n)
      BY <1>g, <2>1, <2>5
    <3>2. f.method = "unwatch" => f.stream # n
      BY <1>e, <2>1 DEF ObsOK
    <3> QED BY <2>2, <3>1, <3>2
  <2>6. CASE ~Granted(n)
    <3>1. Opening(n) /\ f.seq = n /\ status = "ok"
      BY <2>1, <2>2, <2>3, <2>4, <2>6 DEF Granted
    <3>2. PICK d \in Caller : Busy(d) /\ calls[d].op = "watch" /\ calls[d].seq = n
      BY <3>1 DEF Opening
    <3>3. f.method = "watch"
      BY <2>1, <3>1, <3>2 DEF InTurn
    <3>4. f.stream = n
      BY <2>1, <3>1, <3>3 DEF ObsOK
    <3> QED BY <2>2, <3>1, <3>3, <3>4 DEF Watched
  <2> QED BY <2>5, <2>6
<1>9. CASE Guest
  <2>1. /\ UNCHANGED <<calls, handles, answer, up>>
        /\ \A g \in Frames' : g \in Frames \/ g.kind # "response"
        /\ up /\ Watched(n) => Watched(n)'
    BY <1>9 DEF Guest, clientVars
  <2>2. Granted(n)
    BY <2>1 DEF Granted, Opening, Busy
  <2> QED BY <1>g, <2>1, <2>2
<1> QED BY <1>1, <1>2, <1>3, <1>4, <1>5, <1>6, <1>7, <1>8, <1>9 DEF Step

----------------------------------------------------------------------------
(* Waiting.                                                                *)

LEMMA WaitsStep == ASSUME TypeOK, InTurn, WaitsOK, Step PROVE WaitsOK'
<1>0. /\ answer \in [Number -> Status \cup {"empty"}] /\ pending \subseteq Number
      /\ \A c \in Caller : Busy(c) => calls[c].seq \in Number
      /\ \A c \in Caller : calls[c].pc = "wait" => Busy(c)
  BY TypeParts DEF TypeOK, Busy
<1>w. /\ ~client.reading => ~up
      /\ \A c \in Caller : calls[c].pc = "wait" /\ ~panicked =>
            answer[calls[c].seq] # "empty" \/ Awaited(calls[c].seq)
  BY DEF WaitsOK
<1>1. ASSUME NEW c \in Caller, NEW op \in Methods, NEW k \in 0 .. last, Begins(c, op, k)
      PROVE  WaitsOK'
  <2>1. Begin(c, op, k)
    BY <1>1 DEF Begins
  <2>2. /\ calls'[c].pc = "send" /\ \A d \in Caller : d # c => calls'[d] = calls[d]
    BY <2>1, BeginEffect
  <2>3. /\ UNCHANGED <<answer, pending, panicked, up>> /\ Frames' = Frames /\ Requests' = Requests
        /\ client'.reading = client.reading
    BY <1>1, <2>1 DEF Begins, Begin, linkVars, Frames, Requests
  <2>4. \A m : Awaited(m) => /\ m \in pending' /\ client'.reading
                             /\ up' => \/ \E f \in Requests' : f.seq = m
                                       \/ \E g \in Frames' : g.kind = "response" /\ g.seq = m
    BY <2>3 DEF Awaited, Arriving
  <2>5. \A d \in Caller : calls'[d].pc = "wait" => calls'[d] = calls[d]
    BY <2>2
  <2> QED BY <1>w, <2>3, <2>4, <2>5 DEF WaitsOK, Awaited, Arriving
<1>2. ASSUME NEW c \in Caller, Sends(c) PROVE WaitsOK'
  <2>1. /\ UNCHANGED <<client, answer, panicked, up>> /\ Frames' = Frames /\ up
        /\ pending' = pending \cup {calls[c].seq} /\ client.reading
    BY <1>2, <1>w DEF Sends, Usable, Frames
  <2>2. /\ calls'[c].seq = calls[c].seq /\ \A d \in Caller : d # c => calls'[d] = calls[d]
    BY <1>2, SendsEffect
  <2>3. PICK r \in ReqFrame : r.seq = calls[c].seq /\ Requests' = Requests \cup {r}
    BY <1>2, SendsEffect
  <2>4. \A d \in Caller : calls'[d].pc = "wait" /\ ~panicked' =>
            \/ answer'[calls'[d].seq] # "empty"
            \/ /\ calls'[d].seq \in pending' /\ client'.reading
               /\ \/ \E f \in Requests' : f.seq = calls'[d].seq
                  \/ \E g \in Frames' : g.kind = "response" /\ g.seq = calls'[d].seq
    <3> SUFFICES ASSUME NEW d \in Caller, calls'[d].pc = "wait", ~panicked',
                        answer'[calls'[d].seq] = "empty"
                 PROVE  /\ calls'[d].seq \in pending' /\ client'.reading
                        /\ \/ \E f \in Requests' : f.seq = calls'[d].seq
                           \/ \E g \in Frames' : g.kind = "response" /\ g.seq = calls'[d].seq
      OBVIOUS
    <3>1. CASE d = c
      BY <2>1, <2>2, <2>3, <3>1
    <3>2. CASE d # c
      <4>1. Awaited(calls[d].seq) /\ calls'[d] = calls[d]
        BY <1>w, <2>1, <2>2, <3>2
      <4> QED BY <2>1, <2>3, <4>1 DEF Awaited, Arriving
    <3> QED BY <3>1, <3>2
  <2> QED BY <1>w, <2>1, <2>4 DEF WaitsOK, Awaited, Arriving
<1>3. ASSUME NEW c \in Caller, NEW status \in Status, Settles(c, status) PROVE WaitsOK'
  <2>1. Busy(c) /\ Settle(c, status)
    BY <1>3 DEF Settles
  <2>2. /\ calls'[c] = Idle /\ \A d \in Caller : d # c => calls'[d] = calls[d]
        /\ client'.reading = client.reading /\ panicked' = panicked
    BY <2>1, SettleEffect
  <2>3. up' = up /\ Frames' = Frames /\ Requests' = Requests
    BY <1>3 DEF Settles, linkVars, Frames, Requests
  <2>4. \A m \in Number : m # calls[c].seq => answer'[m] = answer[m]
    <3>1. answer' = answer \/ answer' = [answer EXCEPT ![calls[c].seq] = "empty"]
      BY <1>3 DEF Settles
    <3> QED BY <1>0, <3>1
  <2>5. \A m \in pending : m # calls[c].seq => m \in pending'
    BY <1>3 DEF Settles
  <2>6. \A d \in Caller : calls'[d].pc = "wait" =>
           /\ calls[d].pc = "wait" /\ calls'[d] = calls[d]
           /\ calls[d].seq # calls[c].seq /\ calls[d].seq \in Number
    BY <1>0, <2>1, <2>2 DEF InTurn, Busy, Idle
  <2>7. \A m : m # calls[c].seq /\ Awaited(m) =>
           /\ m \in pending' /\ client'.reading
           /\ up' => \/ \E f \in Requests' : f.seq = m
                     \/ \E g \in Frames' : g.kind = "response" /\ g.seq = m
    BY <2>2, <2>3, <2>5 DEF Awaited, Arriving
  <2> QED BY <1>w, <2>2, <2>3, <2>4, <2>6, <2>7 DEF WaitsOK, Awaited, Arriving
<1>4. CASE Takes
  BY <1>4, <1>w DEF Takes, linkVars, WaitsOK, Awaited, Arriving, Requests, Frames
<1>5. ASSUME NEW n \in Number, Aborts(n) PROVE WaitsOK'
  <2>1. /\ UNCHANGED <<client, answer, calls, panicked, up>> /\ Frames' = Frames
        /\ pending \subseteq pending' /\ Requests \subseteq Requests'
    BY <1>5 DEF Aborts, Frames, Requests
  <2>2. \A m : Awaited(m) => /\ m \in pending' /\ client'.reading
                             /\ up' => \/ \E f \in Requests' : f.seq = m
                                       \/ \E g \in Frames' : g.kind = "response" /\ g.seq = m
    BY <2>1 DEF Awaited, Arriving
  <2> QED BY <1>w, <2>1, <2>2 DEF WaitsOK, Awaited, Arriving
<1>6. ASSUME NEW f \in Frame, Reads(f) PROVE WaitsOK'
  <2>1. /\ Frames = Frames' \cup {f} /\ calls' = calls /\ client'.reading = client.reading
        /\ (up' => up) /\ ~panicked /\ Requests' = Requests
    BY <1>6 DEF Reads, Requests
  <2>2. f.status \in Status
    BY DEF Frame, StreamFrame, RespFrame
  <2>3. ASSUME NEW d \in Caller, calls[d].pc = "wait", answer'[calls[d].seq] = "empty"
        PROVE  /\ calls[d].seq \in pending' /\ client'.reading
               /\ up' => \/ \E h \in Requests' : h.seq = calls[d].seq
                         \/ \E g \in Frames' : g.kind = "response" /\ g.seq = calls[d].seq
    <3>1. calls[d].seq \in Number
      BY <1>0, <2>3
    <3>2. ~(f.kind = "response" /\ f.seq \in pending /\ f.seq = calls[d].seq)
      BY <1>0, <1>6, <2>2, <2>3, <3>1, Numbers DEF Reads
    <3>3. answer[calls[d].seq] = "empty"
      BY <1>0, <1>6, <2>3, <3>1, <3>2 DEF Reads
    <3>4. Awaited(calls[d].seq)
      BY <1>w, <2>1, <2>3, <3>3
    <3>5. calls[d].seq \in pending /\ ~(f.kind = "response" /\ f.seq = calls[d].seq)
      BY <3>2, <3>4 DEF Awaited
    <3>6. calls[d].seq \in pending'
      BY <1>6, <3>5 DEF Reads
    <3> QED BY <2>1, <3>4, <3>5, <3>6 DEF Awaited, Arriving
  <2> QED BY <1>w, <2>1, <2>3 DEF WaitsOK, Awaited, Arriving
<1>7. CASE FailsAll
  <2>1. PICK status \in Status : answer' = FailedAnswers(status)
    BY <1>7 DEF FailsAll
  <2>2. /\ UNCHANGED <<calls, panicked, up>> /\ (client'.reading = client.reading \/ ~up)
    BY <1>7 DEF FailsAll
  <2>3. \A m \in Number : answer'[m] = IF m \in pending THEN status ELSE answer[m]
    BY <2>1 DEF FailedAnswers
  <2>4. \A d \in Caller : calls[d].pc = "wait" /\ ~panicked => answer'[calls[d].seq] # "empty"
    BY <1>0, <1>w, <2>3, Numbers DEF Awaited
  <2> QED BY <1>w, <2>2, <2>4 DEF WaitsOK
<1>8. CASE LinkDown
  <2>1. UNCHANGED <<client, answer, calls, pending, panicked>> /\ ~up'
    BY <1>8 DEF LinkDown, clientVars
  <2> QED BY <1>w, <2>1 DEF WaitsOK, Awaited
<1>9. ASSUME NEW f \in ReqFrame, NEW status \in Status, NEW E \in SUBSET StreamFrame,
             Serves(f, status, E)
      PROVE  WaitsOK'
  <2>1. /\ UNCHANGED <<client, answer, calls, pending, panicked, up>>
        /\ \A g \in Requests : g = f \/ g \in Requests'
        /\ up => Frames' = Frames \cup E \cup {Response(f.seq, status)}
    BY <1>9 DEF Serves, clientVars
  <2>2. Response(f.seq, status).seq = f.seq /\ Response(f.seq, status).kind = "response"
    BY FrameTypes DEF ReqFrame
  <2>3. ASSUME NEW m, Awaited(m)
        PROVE  up => \/ \E h \in Requests' : h.seq = m
                     \/ \E g \in Frames' : g.kind = "response" /\ g.seq = m
    <3>1. CASE \E h \in Requests : h.seq = m
      BY <2>1, <2>2, <3>1
    <3>2. CASE \E g \in Frames : g.kind = "response" /\ g.seq = m
      BY <2>1, <3>2
    <3> QED BY <2>3, <3>1, <3>2 DEF Awaited, Arriving
  <2> QED BY <1>w, <2>1, <2>3 DEF WaitsOK, Awaited, Arriving
<1>10. CASE Guest
  <2>1. /\ UNCHANGED <<client, answer, calls, pending, panicked, up>>
        /\ up => toServer' = toServer
        /\ Frames \subseteq Frames'
    BY <1>10 DEF Guest, clientVars
  <2>2. up => Requests' = Requests
    BY <2>1 DEF Requests
  <2>3. \A m : Awaited(m) /\ up => \/ \E h \in Requests' : h.seq = m
                                   \/ \E g \in Frames' : g.kind = "response" /\ g.seq = m
    BY <2>1, <2>2 DEF Awaited, Arriving
  <2> QED BY <1>w, <2>1, <2>3 DEF WaitsOK, Awaited, Arriving
<1> QED BY <1>1, <1>2, <1>3, <1>4, <1>5, <1>6, <1>7, <1>8, <1>9, <1>10 DEF Step

----------------------------------------------------------------------------
(* The invariant, and what follows from it.                                *)

LEMMA InitInv == ASSUME Init PROVE Inv
<1>1. /\ Requests = {} /\ Frames = {} /\ Len(toServer) = 0
      /\ toServer \in Seq(ReqFrame) /\ toClient \in Seq(Frame)
  BY DEF Init, Requests, Frames, Elements
<1>2. last = 0 /\ 1 .. last = {} /\ last \in 0 .. MaxCalls
  BY Numbers DEF Init
<1>3. \A c \in Caller : calls[c] = Idle /\ ~Busy(c)
  BY DEF Init, Busy, Idle
<1>4. TypeOK
  <2>1. client \in ClientRec /\ server \in ServerRec
    BY Numbers DEF Init, ClientRec, ServerRec
  <2>2. Idle \in CallRec
    BY Numbers DEF Idle, CallRec
  <2>3. calls \in [Caller -> CallRec]
    BY <2>2 DEF Init
  <2>4. server.watching = FALSE
    BY DEF Init
  <2> QED BY <1>1, <1>2, <1>3, <2>1, <2>3, <2>4 DEF Init, TypeOK
<1>5. InTurn
  <2>1. 1 .. Len(toServer) = {}
    BY <1>1
  <2>2. \A n \in Number : answer[n] = "empty"
    BY DEF Init
  <2>3. \A c \in Caller : calls[c].pc # "send"
    BY <1>3 DEF Idle
  <2> QED BY <1>1, <1>3, <2>1, <2>2, <2>3 DEF InTurn
<1>6. OneAnswer
  BY DEF Init, OneAnswer
<1>7. ShellsOK
  BY <1>1, <1>3, Numbers DEF Init, ShellsOK, RunningShellIsKnown
<1>8. AttachesOK
  BY <1>1, <1>3 DEF AttachesOK, Idle
<1>9. ShellHasOwner
  BY DEF Init, ShellHasOwner
<1>10. ObsOK
  BY <1>1, <1>3 DEF Init, ObsOK, Opening
<1>11. GrantedOK
  BY <1>3 DEF Init, GrantedOK, Granted, Opening
<1>12. WaitsOK
  BY <1>3 DEF Init, WaitsOK, Idle
<1> QED BY <1>4, <1>5, <1>6, <1>7, <1>8, <1>9, <1>10, <1>11, <1>12 DEF Inv

LEMMA NextInv == ASSUME Inv, Next PROVE Inv'
<1>1. Step
  BY StepCases DEF Inv
<1> QED BY <1>1, TypeStep, InTurnStep, AnswerStep, ShellsStep, AttachesStep, OwnerStep,
           ObsStep, GrantedStep, WaitsStep DEF Inv

LEMMA StutterInv == ASSUME Inv, UNCHANGED vars PROVE Inv'
<1>1. /\ UNCHANGED <<client, last, pending, answer, calls, terms, obs, handles>>
      /\ UNCHANGED <<aborting, expired, panicked, server, shells, up, toServer, toClient, frames>>
  BY DEF vars, clientVars, serverVars, linkVars
<1>2. Requests' = Requests /\ Frames' = Frames
  BY <1>1 DEF Requests, Frames
<1>3. \A c \in Caller : Busy(c)' <=> Busy(c)
  BY <1>1 DEF Busy
<1>4. TypeOK' /\ InTurn' /\ OneAnswer'
  BY <1>1, <1>2 DEF Inv, TypeOK, InTurn, OneAnswer, Busy
<1>5. ShellsOK'
  BY <1>1, <1>2 DEF Inv, ShellsOK, RunningShellIsKnown, Busy
<1>6. AttachesOK'
  BY <1>1, <1>2 DEF Inv, AttachesOK, Usable, Busy
<1>7. ShellHasOwner'
  BY <1>1 DEF Inv, ShellHasOwner, Owned
<1>8. ObsOK'
  BY <1>1, <1>2 DEF Inv, ObsOK, Opening, Ended, Busy
<1>9. GrantedOK'
  BY <1>1, <1>2 DEF Inv, GrantedOK, Granted, Watched, Opening, Ended, Busy
<1>10. WaitsOK'
  BY <1>1, <1>2 DEF Inv, WaitsOK, Awaited, Arriving
<1> QED BY <1>4, <1>5, <1>6, <1>7, <1>8, <1>9, <1>10 DEF Inv

LEMMA AlwaysInv == Spec => []Inv
<1>1. Inv /\ [Next]_vars => Inv'
  BY NextInv, StutterInv
<1> QED BY InitInv, <1>1, PTL DEF Spec

\* Every variable keeps its type: numbers are those of calls already made, and
\* a caller that is busy has an operation, a number and a stream.
THEOREM TypesHold == Spec => []TypeOK
<1>1. Inv => TypeOK
  BY DEF Inv
<1> QED BY <1>1, AlwaysInv, PTL

\* The one-place channel of a call is empty while the call is pending: the read
\* loop, Hangup and failAll never block on it (client.go, call).
THEOREM NoSecondAnswer == Spec => []OneAnswer
<1>1. Inv => OneAnswer
  BY DEF Inv
<1> QED BY <1>1, AlwaysInv, PTL

\* The server knows the login shell that runs, after every detach, freeze, end
\* of an earlier copyPty and shutdown (server.go).
THEOREM NoShellIsForgotten == Spec => []RunningShellIsKnown
<1>1. Inv => RunningShellIsKnown
  BY DEF Inv, ShellsOK
<1> QED BY <1>1, AlwaysInv, PTL

\* A shell that runs while the link is usable has a terminal that a caller
\* holds, is about to get or is closing, unless its Attach was given up.
THEOREM NoShellIsOrphaned == Spec => []ShellHasOwner
<1>1. Inv => ShellHasOwner
  BY DEF Inv
<1> QED BY <1>1, AlwaysInv, PTL

\* An observation in a caller's hands that has not failed is watched by the
\* server, or the frame that ends it is on its way.
THEOREM NoObservationIsSilent == Spec => []NoSilentObservation
<1>1. ASSUME Inv PROVE NoSilentObservation
  <2>1. TypeOK /\ GrantedOK
    BY <1>1 DEF Inv
  <2>2. toClient \in Seq(Frame)
    BY <2>1, TypeParts
  <2>3. DOMAIN toClient = 1 .. Len(toClient)
    BY <2>2
  <2>4. \A g \in Frames : \E i \in DOMAIN toClient : toClient[i] = g
    BY <2>3 DEF Frames, Elements
  <2> SUFFICES ASSUME NEW n \in Number, <<"watch", n>> \in handles, obs[n].failed = "no", up,
                      ~(server.watching /\ server.watchStream = n)
               PROVE  \E i \in DOMAIN toClient :
                         toClient[i].kind = "watch" /\ toClient[i].stream = n
                            /\ toClient[i].status # "ok"
    BY DEF NoSilentObservation
  <2>5. Watched(n)
    BY <2>1 DEF GrantedOK, Granted, Ended
  <2>6. PICK g \in Frames : g.kind = "watch" /\ g.stream = n /\ g.status # "ok"
    BY <2>5 DEF Watched
  <2> QED BY <2>4, <2>6
<1> QED BY <1>1, AlwaysInv, PTL

\* A call that waits has its answer, or the read loop will bring one: none is
\* stranded by a hangup or by the end of the connection.
THEOREM NoCallIsStranded == Spec => []NobodyStranded
<1>1. ASSUME Inv PROVE NobodyStranded
  <2>1. TypeOK /\ WaitsOK
    BY <1>1 DEF Inv
  <2>2. DOMAIN toClient = 1 .. Len(toClient) /\ DOMAIN toServer = 1 .. Len(toServer)
    BY <2>1, TypeParts
  <2>3. /\ \A g \in Frames : \E i \in DOMAIN toClient : toClient[i] = g
        /\ \A f \in Requests : \E i \in DOMAIN toServer : toServer[i] = f
    BY <2>2 DEF Frames, Requests, Elements
  <2> SUFFICES ASSUME NEW c \in Caller, calls[c].pc = "wait", ~panicked,
                      answer[calls[c].seq] = "empty"
               PROVE  /\ calls[c].seq \in pending
                      /\ client.reading
                      /\ up => \/ \E i \in DOMAIN toServer : toServer[i].seq = calls[c].seq
                               \/ \E i \in DOMAIN toClient :
                                     /\ toClient[i].kind = "response"
                                     /\ toClient[i].seq = calls[c].seq
    BY DEF NobodyStranded
  <2>4. Awaited(calls[c].seq)
    BY <2>1 DEF WaitsOK
  <2> QED BY <2>3, <2>4 DEF Awaited, Arriving
<1> QED BY <1>1, AlwaysInv, PTL
=============================================================================
