------------------------- MODULE RemoteClientProofs -------------------------
(***************************************************************************)
(* The client of the daemon, for any number of grants, calls and events:   *)
(* no terminal or observation that a caller holds is silent, what reports  *)
(* success has ended what it was about, and no entry outlives its owner.   *)
(***************************************************************************)
EXTENDS RemoteClient, TLAPS

Status == {"ok", "error"}
Opening == {"attach", "watch"}
Closing == {"detach", "unwatch"}
Slot == Call \cup {Nothing}

CallRec == [method : Methods, grant : Grant, stream : Nat,
            server : {"sent", "replied"} \cup Status,
            answer : {"none", "lost"} \cup Status,
            result : {"none", "lost", "expired"} \cup Status]
Frame == [kind : {"end", "event"} \cup Status, of : Call]

TypeOK ==
    /\ calls \in Seq(CallRec)
    /\ toClient \in Seq(Frame)
    /\ cterms \in [Grant -> Slot] /\ cobs \in [Grant -> Slot]
    /\ dead \subseteq Call
    /\ cclosed \in BOOLEAN /\ up \in BOOLEAN
    /\ loop \in {"running", "returned", "panicked"}
    /\ envs \subseteq Grant
    /\ open \subseteq Call /\ copying \subseteq Call
    /\ events \in Nat

\* The frames under way.
Frames == {toClient[i] : i \in 1 .. Len(toClient)}

\* A call that opens has its own number for a stream, one that closes has the
\* number of an earlier one of its grant that opened.
StreamsOK ==
    \A n \in Call :
        /\ calls[n].method \in Opening => calls[n].stream = n
        /\ calls[n].method \in Closing =>
              /\ calls[n].stream \in 1 .. n - 1
              /\ calls[calls[n].stream].method \in Opening
              /\ calls[calls[n].stream].grant = calls[n].grant
        /\ calls[n].method \notin Opening \cup Closing => calls[n].stream = Nothing

\* The entries of a grant are its own.
EntriesOK ==
    \A g \in Grant :
        /\ cterms[g] # Nothing =>
              calls[cterms[g]].method = "attach" /\ calls[cterms[g]].grant = g
        /\ cobs[g] # Nothing =>
              calls[cobs[g]].method = "watch" /\ calls[cobs[g]].grant = g

\* A caller has s, or may still get it.
Wanted(s) ==
    /\ calls[s].method \in Opening
    /\ calls[s].result \in {"none", "ok"}
    /\ s \notin dead
    /\ \A n \in Call : calls[n].stream = s => calls[n].method \notin Closing

WantedIsKnown ==
    \A s \in Call : Wanted(s) => s \in {cterms[calls[s].grant], cobs[calls[s].grant]}

\* The daemon has answered n, or is about to, and this is the answer.
Answered(n, status) ==
    \/ calls[n].server = status
    \/ [kind |-> status, of |-> n] \in Frames
    \/ calls[n].answer = status
    \/ calls[n].result = status

\* A Freeze or a Revoke n that succeeds ends s, if that is an earlier call.
Ends(n, s) ==
    /\ calls[s].grant = calls[n].grant
    /\ \/ calls[n].method = "revoke"
       \/ calls[n].method = "freeze" /\ calls[s].method = "attach"

\* What was opened was granted; what was answered had its turn, and what it
\* ended stays ended: no earlier operation of its grant is still to come.
AnswersOK ==
    up => /\ \A s \in open : calls[s].server # "sent" /\ ~Answered(s, "error")
          /\ \A n \in Call, status \in Status : Answered(n, status) =>
                calls[n].server # "sent"
          /\ \A n \in Call : Answered(n, "ok") =>
                /\ \A k \in 1 .. n - 1 :
                      calls[k].grant = calls[n].grant => calls[k].server = "replied"
                /\ calls[n].method \in Closing => calls[n].stream \notin open
                /\ \A s \in open : s < n => ~Ends(n, s)

\* What was granted and is wanted is copied from, or its end is on its way.
GrantedIsCopied ==
    up => \A s \in Call : Wanted(s) /\ Answered(s, "ok") =>
        s \in copying \/ [kind |-> "end", of |-> s] \in Frames

Inv == /\ TypeOK /\ StreamsOK /\ EntriesOK /\ EntriesHaveOwners
       /\ WantedIsKnown /\ AnswersOK /\ GrantedIsCopied

----------------------------------------------------------------------------
(* What the steps do to calls and frames.                                  *)

\* What is fixed when a call begins.
Kept(k) ==
    /\ calls'[k].method = calls[k].method
    /\ calls'[k].grant = calls[k].grant
    /\ calls'[k].stream = calls[k].stream

\* The calls stay, but for what the daemon has done about them, for what is
\* in their channels and for how they returned.
ServerKept == \A k \in Call : calls'[k].server = calls[k].server
AnswerKept == \A k \in Call : calls'[k].answer = calls[k].answer
ResultKept == \A k \in Call : calls'[k].result = calls[k].result
CallsKept == calls' \in Seq(CallRec) /\ Call' = Call /\ \A k \in Call : Kept(k)

LEMMA CallFacts ==
    ASSUME calls \in Seq(CallRec)
    PROVE  /\ Len(calls) \in Nat /\ DOMAIN calls = Call
           /\ calls \in [Call -> CallRec]
           /\ \A n \in Call : n \in Nat /\ n # Nothing /\ calls[n] \in CallRec
<1>1. Len(calls) \in Nat /\ DOMAIN calls = 1 .. Len(calls)
      /\ calls \in [1 .. Len(calls) -> CallRec]
  OBVIOUS
<1>2. \A n \in 1 .. Len(calls) : n \in Nat /\ n # Nothing
  BY <1>1 DEF Nothing
<1> QED BY <1>1, <1>2 DEF Call

\* The calls are replaced one for one.
LEMMA Replaced ==
    ASSUME calls \in Seq(CallRec), NEW f \in [Call -> CallRec], calls' = f
    PROVE  calls' \in Seq(CallRec) /\ Call' = Call
<1>1. Len(calls) \in Nat
  OBVIOUS
<1>2. f \in Seq(CallRec) /\ Len(f) = Len(calls)
  BY <1>1 DEF Call
<1> QED BY <1>2 DEF Call

LEMMA SetServer ==
    ASSUME TypeOK, NEW n \in Call, NEW st \in {"sent", "replied"} \cup Status,
           Handled(n, st)
    PROVE  /\ CallsKept /\ AnswerKept /\ ResultKept
           /\ calls'[n].server = st
           /\ \A k \in Call \ {n} : calls'[k].server = calls[k].server
<1>1. calls \in [Call -> CallRec] /\ calls \in Seq(CallRec)
  BY CallFacts DEF TypeOK
<1>2. calls' = [calls EXCEPT ![n].server = st]
  BY DEF Handled
<1>3. [calls EXCEPT ![n].server = st] \in [Call -> CallRec]
  BY <1>1 DEF CallRec, Status
<1>4. calls' \in Seq(CallRec) /\ Call' = Call
  BY <1>1, <1>2, <1>3, Replaced
<1>5. \A k \in Call : k # n => calls'[k] = calls[k]
  BY <1>1, <1>2
<1>6. calls'[n] = [calls[n] EXCEPT !.server = st]
  BY <1>1, <1>2
<1>7. calls[n] \in CallRec
  BY <1>1
<1>8. /\ Kept(n) /\ calls'[n].server = st
      /\ calls'[n].answer = calls[n].answer /\ calls'[n].result = calls[n].result
  BY <1>6, <1>7 DEF CallRec, Kept
<1> QED BY <1>4, <1>5, <1>8 DEF CallsKept, AnswerKept, ResultKept, Kept

LEMMA SetAnswer ==
    ASSUME TypeOK, NEW n \in Call, NEW st \in Status,
           calls' = [calls EXCEPT ![n].answer = st]
    PROVE  /\ CallsKept /\ ServerKept /\ ResultKept
           /\ calls'[n].answer = st
           /\ \A k \in Call \ {n} : calls'[k].answer = calls[k].answer
<1>1. calls \in [Call -> CallRec] /\ calls \in Seq(CallRec)
  BY CallFacts DEF TypeOK
<1>3. [calls EXCEPT ![n].answer = st] \in [Call -> CallRec]
  BY <1>1 DEF CallRec, Status
<1>4. calls' \in Seq(CallRec) /\ Call' = Call
  BY <1>1, <1>3, Replaced
<1>5. \A k \in Call : k # n => calls'[k] = calls[k]
  BY <1>1
<1>6. calls'[n] = [calls[n] EXCEPT !.answer = st]
  BY <1>1
<1>7. calls[n] \in CallRec
  BY <1>1
<1>8. /\ Kept(n) /\ calls'[n].answer = st
      /\ calls'[n].server = calls[n].server /\ calls'[n].result = calls[n].result
  BY <1>6, <1>7 DEF CallRec, Kept
<1> QED BY <1>4, <1>5, <1>8 DEF CallsKept, ServerKept, ResultKept, Kept

LEMMA SetResult ==
    ASSUME TypeOK, NEW n \in Call, NEW r \in {"lost", "expired"} \cup Status,
           calls' = [calls EXCEPT ![n].result = r, ![n].answer = "none"]
    PROVE  /\ CallsKept /\ ServerKept
           /\ calls'[n].answer = "none" /\ calls'[n].result = r
           /\ \A k \in Call \ {n} : /\ calls'[k].answer = calls[k].answer
                                    /\ calls'[k].result = calls[k].result
<1>1. calls \in [Call -> CallRec] /\ calls \in Seq(CallRec)
  BY CallFacts DEF TypeOK
<1> DEFINE f == [calls EXCEPT ![n].result = r]
<1>2. f \in [Call -> CallRec]
  BY <1>1 DEF CallRec, Status
<1>3. /\ \A k \in Call : k # n => f[k] = calls[k]
      /\ f[n] = [calls[n] EXCEPT !.result = r]
  BY <1>1
<1>4. calls' = [f EXCEPT ![n].answer = "none"]
  BY <1>1
<1> HIDE DEF f
<1>5. [f EXCEPT ![n].answer = "none"] \in [Call -> CallRec]
  BY <1>2 DEF CallRec
<1>6. calls' \in Seq(CallRec) /\ Call' = Call
  BY <1>1, <1>4, <1>5, Replaced
<1>7. \A k \in Call : k # n => calls'[k] = calls[k]
  BY <1>2, <1>3, <1>4
<1>8. calls'[n] = [f[n] EXCEPT !.answer = "none"]
  BY <1>2, <1>4
<1>9. calls[n] \in CallRec
  BY <1>1
<1>10. /\ Kept(n) /\ calls'[n].answer = "none" /\ calls'[n].result = r
       /\ calls'[n].server = calls[n].server
  <2>1. /\ f[n].method = calls[n].method /\ f[n].grant = calls[n].grant
        /\ f[n].stream = calls[n].stream /\ f[n].server = calls[n].server
        /\ f[n].result = r
    BY <1>3, <1>9 DEF CallRec
  <2>2. f[n] \in CallRec
    BY <1>2
  <2> QED BY <1>8, <2>1, <2>2 DEF CallRec, Kept
<1> QED BY <1>6, <1>7, <1>10 DEF CallsKept, ServerKept, Kept

LEMMA SetGone ==
    ASSUME TypeOK, Gone
    PROVE  CallsKept /\ AnswerKept /\ ResultKept
<1>1. calls \in [Call -> CallRec] /\ calls \in Seq(CallRec)
  BY CallFacts DEF TypeOK
<1> DEFINE f == [n \in Call |-> [calls[n] EXCEPT !.server = "sent"]]
<1>2. calls' = f
  BY DEF Gone
<1>3. \A n \in Call : f[n] = [calls[n] EXCEPT !.server = "sent"] /\ calls[n] \in CallRec
  BY <1>1
<1>4. f \in [Call -> CallRec]
  BY <1>1 DEF CallRec
<1>5. calls' \in Seq(CallRec) /\ Call' = Call
  BY <1>1, <1>2, <1>4, Replaced
<1> HIDE DEF f
<1>6. ASSUME NEW k \in Call
      PROVE  /\ Kept(k) /\ calls'[k].answer = calls[k].answer
             /\ calls'[k].result = calls[k].result
  BY <1>2, <1>3 DEF Kept, CallRec
<1> QED BY <1>5, <1>6 DEF CallsKept, AnswerKept, ResultKept

LEMMA SetLost ==
    ASSUME TypeOK, calls' = FailedCalls
    PROVE  /\ CallsKept /\ ServerKept /\ ResultKept
           /\ \A k \in Call : calls'[k].answer \in {calls[k].answer, "lost"}
<1>1. calls \in [Call -> CallRec] /\ calls \in Seq(CallRec)
  BY CallFacts DEF TypeOK
<1> DEFINE f == FailedCalls
<1>3. \A n \in Call : /\ f[n] = calls[n] \/ f[n] = [calls[n] EXCEPT !.answer = "lost"]
                      /\ calls[n] \in CallRec
  BY <1>1 DEF FailedCalls
<1>4. f \in [Call -> CallRec]
  BY <1>1 DEF FailedCalls, CallRec
<1>5. calls' \in Seq(CallRec) /\ Call' = Call
  BY <1>1, <1>4, Replaced
<1> HIDE DEF f
<1>6. calls' = f
  BY DEF f
<1>7. ASSUME NEW k \in Call
      PROVE  /\ Kept(k) /\ calls'[k].answer \in {calls[k].answer, "lost"}
             /\ calls'[k].result = calls[k].result
             /\ calls'[k].server = calls[k].server
  <2>1. CASE f[k] = calls[k]
    BY <1>6, <2>1 DEF Kept
  <2>2. CASE f[k] = [calls[k] EXCEPT !.answer = "lost"]
    BY <1>3, <1>6, <2>2 DEF Kept, CallRec
  <2> QED BY <1>3, <2>1, <2>2
<1> QED BY <1>5, <1>7 DEF CallsKept, ServerKept, ResultKept

\* A new call: the others are as they were.
LEMMA AddCall ==
    ASSUME TypeOK, ClientAssumption, NEW m, NEW g \in Grant, NEW s \in Nat, Calls(m, g, s)
    PROVE  LET n == Len(calls) + 1
           IN  /\ calls' \in Seq(CallRec)
               /\ n \notin Call /\ n \in Nat /\ n # Nothing /\ Call' = Call \cup {n}
               /\ \A k \in Call : calls'[k] = calls[k] /\ k < n
               /\ calls'[n].method = m /\ calls'[n].grant = g /\ calls'[n].stream = s
               /\ calls'[n].server = "sent" /\ calls'[n].answer = "none"
               /\ calls'[n].result = "none" /\ m \in Methods
<1> DEFINE n == Len(calls) + 1
           rec == [method |-> m, grant |-> g, stream |-> s, server |-> "sent",
                   answer |-> "none", result |-> "none"]
<1>1. calls \in Seq(CallRec) /\ Len(calls) \in Nat
  BY CallFacts DEF TypeOK
<1>2. calls' = Append(calls, rec) /\ m \in Methods
  BY DEF Calls
<1>3. rec \in CallRec
  BY <1>2 DEF CallRec
<1>4. /\ rec.method = m /\ rec.grant = g /\ rec.stream = s
      /\ rec.server = "sent" /\ rec.answer = "none" /\ rec.result = "none"
  OBVIOUS
<1> HIDE DEF rec
<1>5. /\ calls' \in Seq(CallRec) /\ Len(calls') = n
      /\ \A k \in 1 .. Len(calls) : calls'[k] = calls[k]
      /\ calls'[n] = rec
  BY <1>1, <1>2, <1>3
<1>6. /\ 1 .. n = 1 .. Len(calls) \cup {n} /\ n \notin 1 .. Len(calls)
      /\ n \in Nat /\ n # 0 /\ \A k \in 1 .. Len(calls) : k < n
  BY <1>1
<1>7. Call' = Call \cup {n}
  BY <1>5, <1>6 DEF Call
<1> QED BY <1>2, <1>4, <1>5, <1>6, <1>7 DEF Call, Nothing

LEMMA AddFrame ==
    ASSUME TypeOK, NEW kind \in {"end", "event"} \cup Status, NEW n \in Call,
           toClient' = Sent(kind, n), Call' = Call
    PROVE  /\ toClient' \in Seq(Frame')
           /\ Frames' = Frames \cup {[kind |-> kind, of |-> n]}
<1> DEFINE x == [kind |-> kind, of |-> n]
<1>1. x \in Frame /\ Frame' = Frame /\ toClient \in Seq(Frame)
  BY DEF Frame, TypeOK
<1>2. toClient' = Append(toClient, x)
  BY DEF Sent
<1> HIDE DEF x
<1>3. /\ toClient' \in Seq(Frame) /\ Len(toClient') = Len(toClient) + 1
      /\ Len(toClient) \in Nat
      /\ \A i \in 1 .. Len(toClient) : toClient'[i] = toClient[i]
      /\ toClient'[Len(toClient) + 1] = x
  BY <1>1, <1>2
<1>4. 1 .. Len(toClient) + 1 = 1 .. Len(toClient) \cup {Len(toClient) + 1}
  BY <1>3
<1>5. Frames' = Frames \cup {x}
  BY <1>3, <1>4 DEF Frames
<1> QED BY <1>1, <1>3, <1>5 DEF x

LEMMA TakeFrame ==
    ASSUME TypeOK, toClient # <<>>, toClient' = Tail(toClient)
    PROVE  /\ toClient' \in Seq(Frame)
           /\ Head(toClient) \in Frame /\ Head(toClient) \in Frames
           /\ Frames = Frames' \cup {Head(toClient)}
<1>1. /\ toClient' \in Seq(Frame) /\ Head(toClient) \in Frame
      /\ Head(toClient) = toClient[1]
      /\ Len(toClient') = Len(toClient) - 1 /\ Len(toClient) \in Nat /\ Len(toClient) >= 1
      /\ \A i \in 1 .. Len(toClient) - 1 : toClient'[i] = toClient[i + 1]
  BY DEF TypeOK
<1>2. \A i \in 1 .. Len(toClient) - 1 : i + 1 \in 1 .. Len(toClient)
  BY <1>1
<1>3. \A i \in 1 .. Len(toClient) :
         i = 1 \/ (i - 1 \in 1 .. Len(toClient) - 1 /\ i = (i - 1) + 1)
  BY <1>1
<1>4. Head(toClient) \in Frames
  BY <1>1 DEF Frames
<1>5. Frames' \subseteq Frames
  BY <1>1, <1>2 DEF Frames
<1>6. \A i \in 1 .. Len(toClient) : toClient[i] \in Frames' \cup {Head(toClient)}
  BY <1>1, <1>3 DEF Frames
<1> QED BY <1>1, <1>4, <1>5, <1>6 DEF Frames

LEMMA FrameFacts ==
    ASSUME TypeOK
    PROVE  \A f \in Frames : f.of \in Call
<1>1. toClient \in Seq(Frame)
  BY DEF TypeOK
<1>2. \A i \in 1 .. Len(toClient) : toClient[i] \in Frame
  BY <1>1
<1> QED BY <1>2 DEF Frames, Frame

----------------------------------------------------------------------------
(* What all steps have in common.                                          *)

\* Calls are added and never change what they are; what returned has returned;
\* what is dead and a connection that is over stay so.
Later ==
    /\ Call \subseteq Call'
    /\ \A k \in Call : Kept(k)
    /\ \A k \in Call : calls'[k].result \in {"none", "ok"} => calls[k].result \in {"none", "ok"}
    /\ dead \subseteq dead'
    /\ up' => up

LEMMA EndsKept ==
    ASSUME NEW n \in Call, NEW s \in Call, Kept(n), Kept(s)
    PROVE  Ends(n, s)' <=> Ends(n, s)
BY DEF Kept, Ends

LEMMA WantedBefore ==
    ASSUME Later, NEW s \in Call, Wanted(s)'
    PROVE  Wanted(s)
<1>1. \A n \in Call : n \in Call' /\ Kept(n)
  BY DEF Later
<1> QED BY <1>1 DEF Later, Wanted, Kept

LEMMA ShapeKept ==
    ASSUME TypeOK, StreamsOK, EntriesOK, CallsKept,
           \A g \in Grant : cterms'[g] \in {cterms[g], Nothing},
           \A g \in Grant : cobs'[g] \in {cobs[g], Nothing}
    PROVE  StreamsOK' /\ EntriesOK'
<1>1. \A n \in Call : Kept(n) /\ n \in Nat
  BY CallFacts DEF CallsKept, TypeOK
<1>2. Call' = Call
  BY DEF CallsKept
<1>3. StreamsOK'
  <2> SUFFICES ASSUME NEW n \in Call
               PROVE  /\ calls'[n].method \in Opening => calls'[n].stream = n
                      /\ calls'[n].method \in Closing =>
                            /\ calls'[n].stream \in 1 .. n - 1
                            /\ calls'[calls'[n].stream].method \in Opening
                            /\ calls'[calls'[n].stream].grant = calls'[n].grant
                      /\ calls'[n].method \notin Opening \cup Closing => calls'[n].stream = Nothing
    BY <1>2 DEF StreamsOK
  <2>1. 1 .. n - 1 \subseteq Call
    BY CallFacts DEF Call, TypeOK
  <2> QED BY <1>1, <2>1 DEF StreamsOK, Kept
<1>4. EntriesOK'
  <2>1. \A g \in Grant : cterms[g] \in Call \cup {Nothing} /\ cobs[g] \in Call \cup {Nothing}
    BY DEF TypeOK, Slot
  <2> QED BY <1>1, <2>1 DEF EntriesOK, Kept
<1> QED BY <1>3, <1>4

\* Nothing new is entered, and what returned has no entry.
LEMMA OwnersKept ==
    ASSUME TypeOK, EntriesHaveOwners, CallsKept,
           \A g \in Grant : cterms'[g] \in {cterms[g], Nothing},
           \A g \in Grant : cobs'[g] \in {cobs[g], Nothing},
           \A k \in Call : calls'[k].result # calls[k].result =>
              /\ calls[k].stream \in Call =>
                    LET g == calls[calls[k].stream].grant
                    IN  k # calls[k].stream => calls[k].stream \notin {cterms'[g], cobs'[g]}
              /\ k \in {cterms'[calls[k].grant], cobs'[calls[k].grant]} =>
                    calls'[k].result \in {"none", "ok"}
    PROVE  EntriesHaveOwners'
<1>1. Call' = Call /\ \A k \in Call : Kept(k)
  BY DEF CallsKept
<1>2. SUFFICES ASSUME NEW s \in Call, s \in {cterms'[calls'[s].grant], cobs'[calls'[s].grant]}
               PROVE  /\ calls'[s].result \in {"none", "ok"}
                      /\ \A n \in Call : calls'[n].stream = s /\ n # s => calls'[n].result = "none"
  BY <1>1 DEF EntriesHaveOwners
<1>3. calls'[s].grant = calls[s].grant /\ calls[s].grant \in Grant /\ s # Nothing
  BY <1>1, CallFacts DEF Kept, TypeOK, CallRec
<1>4. s \in {cterms[calls[s].grant], cobs[calls[s].grant]}
  BY <1>2, <1>3
<1>5. /\ calls[s].result \in {"none", "ok"}
      /\ \A n \in Call : calls[n].stream = s /\ n # s => calls[n].result = "none"
  BY <1>4 DEF EntriesHaveOwners
<1>6. calls'[s].result \in {"none", "ok"}
  BY <1>2, <1>3, <1>5
<1>7. ASSUME NEW n \in Call, calls'[n].stream = s, n # s
      PROVE  calls'[n].result = "none"
  <2>1. calls[n].stream = s
    BY <1>1, <1>7 DEF Kept
  <2>2. calls[n].result = "none"
    BY <1>5, <1>7, <2>1
  <2> QED BY <1>2, <1>3, <1>7, <2>1, <2>2
<1> QED BY <1>6, <1>7

\* An entry goes only when nobody wants it any more.
LEMMA KnownKept ==
    ASSUME TypeOK, WantedIsKnown, Later, Call' = Call,
           \A s \in Call : /\ s \in {cterms[calls[s].grant], cobs[calls[s].grant]}
                           /\ Wanted(s)'
              => s \in {cterms'[calls[s].grant], cobs'[calls[s].grant]}
    PROVE  WantedIsKnown'
<1>1. SUFFICES ASSUME NEW s \in Call, Wanted(s)'
               PROVE  s \in {cterms'[calls'[s].grant], cobs'[calls'[s].grant]}
  BY DEF WantedIsKnown
<1>2. s \in {cterms[calls[s].grant], cobs[calls[s].grant]}
  BY <1>1, WantedBefore DEF WantedIsKnown
<1>3. calls'[s].grant = calls[s].grant
  BY DEF Later, Kept
<1> QED BY <1>1, <1>2, <1>3

\* No answer is new, and nothing is opened.
LEMMA AnswersKept ==
    ASSUME TypeOK, StreamsOK, AnswersOK, Later, Call' = Call, open' \subseteq open,
           up' => \A k \in Call : /\ calls[k].server # "sent" => calls'[k].server # "sent"
                                  /\ calls[k].server = "replied" => calls'[k].server = "replied",
           up' => \A k \in Call, st \in Status : Answered(k, st)' => Answered(k, st)
    PROVE  AnswersOK'
<1>1. SUFFICES ASSUME up' PROVE AnswersOK'
  BY DEF AnswersOK
<1>2. up /\ \A k \in Call : Kept(k)
  BY <1>1 DEF Later
<1>3. open \subseteq Call /\ \A n \in Call : 1 .. n - 1 \subseteq Call
  BY CallFacts DEF TypeOK, Call
<1>4. \A s \in open' : s \in open /\ calls'[s].server # "sent" /\ ~Answered(s, "error")'
  BY <1>1, <1>2, <1>3 DEF AnswersOK, Status
<1>5. \A n \in Call, status \in Status : Answered(n, status)' => calls'[n].server # "sent"
  BY <1>1, <1>2 DEF AnswersOK
<1>6. ASSUME NEW n \in Call, Answered(n, "ok")'
      PROVE  /\ \A k \in 1 .. n - 1 :
                   calls'[k].grant = calls'[n].grant => calls'[k].server = "replied"
             /\ calls'[n].method \in Closing => calls'[n].stream \notin open'
             /\ \A s \in open' : s < n => ~Ends(n, s)'
  <2>1. Answered(n, "ok")
    BY <1>1, <1>6 DEF Status
  <2>2. /\ \A k \in 1 .. n - 1 :
              calls[k].grant = calls[n].grant => calls[k].server = "replied"
        /\ calls[n].method \in Closing => calls[n].stream \notin open
        /\ \A s \in open : s < n => ~Ends(n, s)
    BY <1>2, <2>1 DEF AnswersOK
  <2> QED BY <1>1, <1>2, <1>3, <2>2, EndsKept DEF Kept
<1> QED BY <1>4, <1>5, <1>6 DEF AnswersOK

\* What is copied from, or has its end on the way, stays so while wanted.
LEMMA CopiedKept ==
    ASSUME GrantedIsCopied, Later, Call' = Call,
           up' => \A s \in Call : Wanted(s)' =>
              /\ Answered(s, "ok")' => Answered(s, "ok")
              /\ s \in copying => s \in copying' \/ [kind |-> "end", of |-> s] \in Frames'
              /\ [kind |-> "end", of |-> s] \in Frames => [kind |-> "end", of |-> s] \in Frames'
    PROVE  GrantedIsCopied'
<1>1. SUFFICES ASSUME up', NEW s \in Call, Wanted(s)', Answered(s, "ok")'
               PROVE  s \in copying' \/ [kind |-> "end", of |-> s] \in Frames'
  BY DEF GrantedIsCopied
<1>2. up /\ Wanted(s) /\ Answered(s, "ok")
  BY <1>1, WantedBefore DEF Later
<1> QED BY <1>1, <1>2 DEF GrantedIsCopied

----------------------------------------------------------------------------
(* The daemon's steps.                                                     *)

LEMMA SameCalls ==
    ASSUME TypeOK, UNCHANGED calls
    PROVE  CallsKept /\ ServerKept /\ AnswerKept /\ ResultKept
BY DEF TypeOK, CallsKept, ServerKept, AnswerKept, ResultKept, Kept, Call

LEMMA ClientUntouched ==
    ASSUME Inv, CallsKept, ResultKept, UNCHANGED handleVars, up' => up
    PROVE  Later /\ StreamsOK' /\ EntriesOK' /\ EntriesHaveOwners' /\ WantedIsKnown'
<1>1. cterms' = cterms /\ cobs' = cobs /\ dead' = dead /\ Call' = Call
  BY DEF handleVars, CallsKept
<1>2. Later
  BY <1>1 DEF Later, CallsKept, ResultKept
<1>3. StreamsOK' /\ EntriesOK'
  BY <1>1, ShapeKept DEF Inv
<1>4. EntriesHaveOwners'
  BY <1>1, OwnersKept DEF Inv, ResultKept
<1>5. WantedIsKnown'
  BY <1>1, <1>2, KnownKept DEF Inv
<1> QED BY <1>2, <1>3, <1>4, <1>5

\* The type invariant, of the variables that change.
LEMMA TypesKept ==
    ASSUME TypeOK, CallsKept, toClient' \in Seq(Frame'),
           cterms' \in [Grant -> Slot], cobs' \in [Grant -> Slot],
           dead' \subseteq Call, cclosed' \in BOOLEAN, up' \in BOOLEAN,
           loop' \in {"running", "returned", "panicked"}, envs' \subseteq Grant,
           open' \subseteq Call, copying' \subseteq Call, events' \in Nat
    PROVE  TypeOK'
BY DEF TypeOK, CallsKept, Slot

LEMMA HandlesKeeps ==
    ASSUME Inv, NEW n \in Call, NEW st \in Status, Handled(n, st),
           up, calls[n].server = "sent", UNCHANGED <<toClient, clientVars, up, events>>,
           envs' \subseteq Grant, open' \subseteq open \cup {n},
           copying \subseteq copying', copying' \subseteq Call,
           n \in open' \ open => st = "ok",
           st = "ok" => \A k \in 1 .. n - 1 :
              calls[k].grant = calls[n].grant => calls[k].server = "replied",
           st = "ok" /\ calls[n].method \in Opening => n \in copying',
           st = "ok" /\ calls[n].method \in Closing => calls[n].stream \notin open',
           st = "ok" => \A s \in open' : s < n => ~Ends(n, s)
    PROVE  Inv'
<1>1. /\ CallsKept /\ AnswerKept /\ ResultKept /\ calls'[n].server = st
      /\ \A k \in Call \ {n} : calls'[k].server = calls[k].server
  BY SetServer DEF Inv
<1>2. /\ UNCHANGED <<toClient, handleVars>> /\ up' = up /\ cclosed' = cclosed
      /\ loop' = loop /\ Frames' = Frames /\ Call' = Call /\ events' = events
      /\ \A k \in Call : Kept(k)
  BY <1>1 DEF clientVars, Frames, CallsKept
<1>3. Later /\ StreamsOK' /\ EntriesOK' /\ EntriesHaveOwners' /\ WantedIsKnown'
  BY <1>1, <1>2, ClientUntouched
<1>4. TypeOK'
  <2>1. Frame' = Frame
    BY <1>2 DEF Frame
  <2> QED BY <1>1, <1>2, <2>1, TypesKept DEF Inv, TypeOK, handleVars
<1>5. \A k \in Call, s \in Status : Answered(k, s)' => Answered(k, s) \/ (k = n /\ s = st)
  BY <1>1, <1>2 DEF Answered, AnswerKept, ResultKept
<1>6. /\ ~Answered(n, "ok") /\ ~Answered(n, "error") /\ n \notin open
      /\ \A s \in open : calls[s].server # "sent" /\ ~Answered(s, "error")
      /\ \A k \in Call, s \in Status : Answered(k, s) => calls[k].server # "sent"
  BY DEF Inv, AnswersOK, Status
<1>7. open \subseteq Call /\ \A k \in Call : k \in Nat /\ 1 .. k - 1 \subseteq Call
  BY CallFacts DEF Inv, TypeOK, Call
<1>8. AnswersOK'
  <2>1. ASSUME NEW s \in open'
        PROVE  calls'[s].server # "sent" /\ ~Answered(s, "error")'
    <3>1. CASE s = n
      BY <1>1, <1>5, <1>6, <3>1 DEF Status
    <3>2. CASE s # n
      BY <1>1, <1>5, <1>6, <1>7, <3>2 DEF Status
    <3> QED BY <3>1, <3>2
  <2>2. \A k \in Call, s \in Status : Answered(k, s)' => calls'[k].server # "sent"
    BY <1>1, <1>5, <1>6 DEF Status
  <2>3. ASSUME NEW m \in Call, Answered(m, "ok")'
        PROVE  /\ \A k \in 1 .. m - 1 :
                     calls'[k].grant = calls'[m].grant => calls'[k].server = "replied"
               /\ calls'[m].method \in Closing => calls'[m].stream \notin open'
               /\ \A s \in open' : s < m => ~Ends(m, s)'
    <3>1. CASE m = n
      <4>1. st = "ok"
        BY <1>5, <1>6, <2>3, <3>1 DEF Status
      <4>2. \A k \in 1 .. n - 1 : k \in Call \ {n}
        BY <1>7
      <4>3. open' \subseteq Call
        BY <1>7
      <4> QED BY <1>1, <1>2, <3>1, <4>1, <4>2, <4>3, EndsKept DEF Kept
    <3>2. CASE m # n
      <4>1. Answered(m, "ok")
        BY <1>5, <2>3, <3>2 DEF Status
      <4>2. /\ \A k \in 1 .. m - 1 :
                  calls[k].grant = calls[m].grant => calls[k].server = "replied"
            /\ calls[m].method \in Closing => calls[m].stream \notin open
            /\ \A s \in open : s < m => ~Ends(m, s)
        BY <4>1 DEF Inv, AnswersOK
      <4>3. n \in 1 .. m - 1 => calls[n].grant # calls[m].grant
        BY <4>2
      <4>4. n < m => n \in 1 .. m - 1
        BY <1>7 DEF Call
      <4>5. calls[m].method \in Closing => calls[m].stream # n
        BY <4>3 DEF Inv, StreamsOK
      <4>6. \A k \in 1 .. m - 1 :
               calls'[k].grant = calls'[m].grant => calls'[k].server = "replied"
        BY <1>1, <1>2, <1>7, <4>2, <4>3 DEF Kept
      <4>7. calls'[m].method \in Closing => calls'[m].stream \notin open'
        BY <1>2, <4>2, <4>5 DEF Kept
      <4>8. \A s \in open' : s < m => ~Ends(m, s)'
        <5>1. n < m => ~Ends(m, n)
          BY <4>3, <4>4 DEF Ends
        <5> QED BY <1>2, <1>7, <4>2, <5>1, EndsKept
      <4> QED BY <4>6, <4>7, <4>8
    <3> QED BY <3>1, <3>2
  <2> QED BY <1>2, <2>1, <2>2, <2>3 DEF AnswersOK
<1>9. GrantedIsCopied'
  <2> SUFFICES ASSUME NEW s \in Call, Wanted(s)', Answered(s, "ok")'
               PROVE  s \in copying' \/ [kind |-> "end", of |-> s] \in Frames'
    BY <1>2 DEF GrantedIsCopied
  <2>1. Wanted(s)
    BY <1>3, WantedBefore
  <2>2. CASE Answered(s, "ok")
    BY <1>2, <2>1, <2>2 DEF Inv, GrantedIsCopied
  <2>3. CASE s = n /\ st = "ok"
    BY <2>1, <2>3 DEF Wanted
  <2> QED BY <1>5, <2>2, <2>3 DEF Status
<1> QED BY <1>3, <1>4, <1>8, <1>9 DEF Inv

LEMMA HandlerKeeps ==
    ASSUME Inv, NEW n \in Call,
           \/ Refuse(n) \/ Ensure(n) \/ Opens(n) \/ Closes(n) \/ Freezes(n) \/ Revokes(n),
           UNCHANGED <<toClient, clientVars, up>>
    PROVE  Inv'
<1>1. /\ open \subseteq Call /\ copying \subseteq Call /\ envs \subseteq Grant
      /\ calls[n].grant \in Grant /\ n \in Nat
      /\ \A k \in 1 .. n - 1 : k \in Call
  BY CallFacts DEF Inv, TypeOK, Call, CallRec
<1>2. up => \A s \in open : calls[s].server # "sent"
  BY DEF Inv, AnswersOK
<1>3. CASE Refuse(n)
  <2>1. /\ up /\ calls[n].server = "sent" /\ Handled(n, "error") /\ UNCHANGED serverVars
    BY <1>3 DEF Refuse, Turn
  <2> QED BY <1>1, <2>1, HandlesKeeps DEF serverVars, Status
<1>4. CASE Ensure(n)
  <2>1. /\ up /\ calls[n].server = "sent" /\ Handled(n, "ok") /\ calls[n].method = "ensure"
        /\ \A k \in 1 .. n - 1 :
              calls[k].grant = calls[n].grant => calls[k].server = "replied"
        /\ envs' \subseteq Grant /\ UNCHANGED <<open, copying, events>>
    BY <1>1, <1>4 DEF Ensure, Turn
  <2>2. \A s \in open' : ~Ends(n, s)
    BY <2>1 DEF Ends, Opening
  <2> QED BY <1>1, <2>1, <2>2, HandlesKeeps DEF Status, Opening, Closing
<1>5. CASE Opens(n)
  <2>1. /\ up /\ calls[n].server = "sent" /\ Handled(n, "ok") /\ calls[n].method \in Opening
        /\ \A k \in 1 .. n - 1 :
              calls[k].grant = calls[n].grant => calls[k].server = "replied"
        /\ open' = open \cup {n} /\ copying' = copying \cup {n} /\ UNCHANGED <<envs, events>>
    BY <1>5 DEF Opens, Turn, Opening
  <2>2. \A s \in open' : ~Ends(n, s)
    BY <2>1 DEF Ends, Opening
  <2> QED BY <1>1, <2>1, <2>2, HandlesKeeps DEF Status, Opening, Closing
<1>6. CASE Closes(n)
  <2>1. /\ up /\ calls[n].server = "sent"
        /\ Handled(n, "ok") \/ Handled(n, "error")
        /\ calls[n].method \in Closing
        /\ \A k \in 1 .. n - 1 :
              calls[k].grant = calls[n].grant => calls[k].server = "replied"
        /\ open' = open \ {calls[n].stream} /\ UNCHANGED <<copying, envs, events>>
    BY <1>6 DEF Closes, Turn, Closing, Named
  <2>2. \A s \in open' : ~Ends(n, s)
    BY <2>1 DEF Ends, Closing
  <2>3. ASSUME NEW st \in Status, Handled(n, st) PROVE Inv'
    BY <1>1, <2>1, <2>2, <2>3, HandlesKeeps DEF Opening, Closing
  <2> QED BY <2>1, <2>3 DEF Status
<1>7. CASE Freezes(n) \/ Revokes(n)
  <2>1. /\ up /\ calls[n].server = "sent"
        /\ Handled(n, "ok") \/ Handled(n, "error")
        /\ calls[n].method \in {"freeze", "revoke"}
        /\ \A k \in 1 .. n - 1 :
              calls[k].grant = calls[n].grant => calls[k].server = "replied"
        /\ open' \subseteq open /\ envs' \subseteq Grant
        /\ UNCHANGED <<copying, events>>
    BY <1>1, <1>7 DEF Freezes, Revokes, Turn
  <2>2. \A s \in open' : ~Ends(n, s)
    BY <1>7 DEF Freezes, Revokes, Turn, InUse, Frozen, Ends
  <2>3. ASSUME NEW st \in Status, Handled(n, st) PROVE Inv'
    BY <1>1, <2>1, <2>2, <2>3, HandlesKeeps DEF Opening, Closing
  <2> QED BY <2>1, <2>3 DEF Status
<1> QED BY <1>3, <1>4, <1>5, <1>6, <1>7

LEMMA ReplyKeeps ==
    ASSUME Inv, NEW n \in Call, Reply(n) \/ Busy(n),
           UNCHANGED <<clientVars, up, serverVars>>
    PROVE  Inv'
<1>1. PICK st \in Status :
         /\ calls[n].server = st \/ (calls[n].server = "sent" /\ st = "error")
         /\ up /\ toClient' = Sent(st, n) /\ Handled(n, "replied")
  BY DEF Reply, Busy, Status
<1>2. /\ CallsKept /\ AnswerKept /\ ResultKept /\ calls'[n].server = "replied"
      /\ \A k \in Call \ {n} : calls'[k].server = calls[k].server
  BY <1>1, SetServer DEF Inv
<1>3. /\ UNCHANGED <<handleVars, cclosed, loop, up, envs, open, copying, events>>
      /\ Call' = Call /\ \A k \in Call : Kept(k)
  BY <1>2 DEF clientVars, serverVars, CallsKept
<1>4. toClient' \in Seq(Frame') /\ Frames' = Frames \cup {[kind |-> st, of |-> n]}
  BY <1>1, <1>3, AddFrame DEF Inv
<1>5. Later /\ StreamsOK' /\ EntriesOK' /\ EntriesHaveOwners' /\ WantedIsKnown'
  BY <1>2, <1>3, ClientUntouched
<1>6. TypeOK'
  BY <1>2, <1>3, <1>4, TypesKept DEF Inv, TypeOK, handleVars
<1>7. \A k \in Call, s \in Status : Answered(k, s)' =>
         Answered(k, s) \/ (k = n /\ s = "error" /\ calls[n].server = "sent")
  <2> SUFFICES ASSUME NEW k \in Call, NEW s \in Status, Answered(k, s)', ~Answered(k, s)
               PROVE  k = n /\ s = "error" /\ calls[n].server = "sent"
    OBVIOUS
  <2>1. s # "replied"
    BY DEF Status
  <2>2. [kind |-> s, of |-> k] \in Frames' \ Frames
    BY <1>2, <1>3, <2>1 DEF Answered, AnswerKept, ResultKept
  <2>3. [kind |-> s, of |-> k] = [kind |-> st, of |-> n]
    BY <1>4, <2>2
  <2>4. s = st /\ k = n
    BY <2>3
  <2> QED BY <1>1, <2>4 DEF Answered
<1>8. AnswersOK'
  <2>1. CASE calls[n].server # "sent"
    <3>1. \A k \in Call, s \in Status : Answered(k, s)' => Answered(k, s)
      BY <1>7, <2>1
    <3>2. \A k \in Call : /\ calls[k].server # "sent" => calls'[k].server # "sent"
                          /\ calls[k].server = "replied" => calls'[k].server = "replied"
      BY <1>2
    <3> QED BY <1>3, <1>5, <3>1, <3>2, AnswersKept DEF Inv
  <2>2. CASE calls[n].server = "sent"
    <3>1. /\ n \notin open
          /\ \A s \in open : s \in Call /\ calls[s].server # "sent" /\ ~Answered(s, "error")
          /\ \A k \in Call, s \in Status : Answered(k, s) => calls[k].server # "sent"
      BY <1>1, <2>2 DEF Inv, AnswersOK, TypeOK
    <3>2. \A s \in open : calls'[s].server # "sent" /\ ~Answered(s, "error")'
      BY <1>2, <1>7, <3>1 DEF Status
    <3>3. \A k \in Call, s \in Status : Answered(k, s)' => calls'[k].server # "sent"
      BY <1>2, <1>7, <3>1
    <3>4. ASSUME NEW m \in Call, Answered(m, "ok")'
          PROVE  /\ \A k \in 1 .. m - 1 :
                       calls'[k].grant = calls'[m].grant => calls'[k].server = "replied"
                 /\ calls'[m].method \in Closing => calls'[m].stream \notin open
                 /\ \A s \in open : s < m => ~Ends(m, s)'
      <4>1. Answered(m, "ok")
        BY <1>7, <3>4 DEF Status
      <4>2. \A k \in 1 .. m - 1 : k \in Call
        BY CallFacts DEF Inv, TypeOK, Call
      <4>3. /\ \A k \in 1 .. m - 1 :
                  calls[k].grant = calls[m].grant => calls[k].server = "replied"
            /\ calls[m].method \in Closing => calls[m].stream \notin open
            /\ \A s \in open : s < m => ~Ends(m, s)
        BY <1>1, <4>1 DEF Inv, AnswersOK
      <4> QED BY <1>2, <1>3, <3>1, <4>2, <4>3, EndsKept DEF Kept
    <3> QED BY <1>3, <3>2, <3>3, <3>4 DEF AnswersOK
  <2> QED BY <2>1, <2>2
<1>9. GrantedIsCopied'
  <2>1. \A s \in Call : Answered(s, "ok")' => Answered(s, "ok")
    BY <1>7 DEF Status
  <2> QED BY <1>3, <1>4, <1>5, <2>1, CopiedKept DEF Inv
<1> QED BY <1>5, <1>6, <1>8, <1>9 DEF Inv

LEMMA CopyKeeps ==
    ASSUME Inv, NEW s \in Call, CopyEnds(s) \/ SendEvent(s),
           UNCHANGED <<calls, clientVars, up>>
    PROVE  Inv'
<1>1. PICK kind \in {"end", "event"} :
         /\ toClient' = Sent(kind, s) /\ UNCHANGED <<envs, open>>
         /\ copying' = copying \/ (copying' = copying \ {s} /\ kind = "end")
         /\ events' \in Nat
  BY DEF CopyEnds, SendEvent, Inv, TypeOK
<1>2. /\ CallsKept /\ ServerKept /\ AnswerKept /\ ResultKept
      /\ UNCHANGED <<handleVars, cclosed, loop, up>> /\ Call' = Call
  BY SameCalls DEF Inv, clientVars, CallsKept
<1>3. toClient' \in Seq(Frame') /\ Frames' = Frames \cup {[kind |-> kind, of |-> s]}
  BY <1>1, <1>2, AddFrame DEF Inv
<1>4. Later /\ StreamsOK' /\ EntriesOK' /\ EntriesHaveOwners' /\ WantedIsKnown'
  BY <1>2, ClientUntouched
<1>5. TypeOK'
  BY <1>1, <1>2, <1>3, TypesKept DEF Inv, TypeOK, handleVars
<1>6. \A k \in Call, st \in Status : Answered(k, st)' => Answered(k, st)
  <2> SUFFICES ASSUME NEW k \in Call, NEW st \in Status,
                      [kind |-> st, of |-> k] \in Frames'
               PROVE  [kind |-> st, of |-> k] \in Frames
    BY <1>2 DEF Answered, ServerKept, AnswerKept, ResultKept
  <2>1. [kind |-> st, of |-> k] # [kind |-> kind, of |-> s]
    BY DEF Status
  <2> QED BY <1>3, <2>1
<1>7. AnswersOK'
  BY <1>1, <1>2, <1>4, <1>6, AnswersKept DEF Inv, ServerKept
<1>8. GrantedIsCopied'
  <2>1. \A k \in Call : Answered(k, "ok")' => Answered(k, "ok")
    BY <1>6 DEF Status
  <2> QED BY <1>1, <1>2, <1>3, <1>4, <2>1, CopiedKept DEF Inv
<1> QED BY <1>4, <1>5, <1>7, <1>8 DEF Inv

LEMMA ElsewhereKeeps ==
    ASSUME Inv, NEW s \in Call, Elsewhere(s), UNCHANGED <<calls, toClient, clientVars, up>>
    PROVE  Inv'
<1>1. open' \subseteq open /\ UNCHANGED <<envs, copying, events>>
  BY DEF Elsewhere
<1>2. /\ CallsKept /\ ServerKept /\ AnswerKept /\ ResultKept
      /\ UNCHANGED <<handleVars, cclosed, loop, up>> /\ Call' = Call /\ Frames' = Frames
  BY SameCalls DEF Inv, clientVars, CallsKept, Frames
<1>3. Later /\ StreamsOK' /\ EntriesOK' /\ EntriesHaveOwners' /\ WantedIsKnown'
  BY <1>2, ClientUntouched
<1>4. TypeOK'
  <2>1. Frame' = Frame
    BY <1>2 DEF Frame
  <2> QED BY <1>1, <1>2, <2>1, TypesKept DEF Inv, TypeOK, handleVars
<1>5. \A k \in Call, st \in Status : Answered(k, st)' => Answered(k, st)
  BY <1>2 DEF Answered, ServerKept, AnswerKept, ResultKept
<1>6. AnswersOK'
  BY <1>1, <1>2, <1>3, <1>5, AnswersKept DEF Inv, ServerKept
<1>7. GrantedIsCopied'
  BY <1>1, <1>2, <1>3, <1>5, CopiedKept DEF Inv, Status
<1> QED BY <1>3, <1>4, <1>6, <1>7 DEF Inv

\* The connection ends: Drop, Close, and the panic.
LEMMA GoneKeeps ==
    ASSUME Inv, Gone, UNCHANGED <<toClient, handleVars>>, cclosed' \in BOOLEAN,
           loop' \in {"running", "returned", "panicked"}
    PROVE  Inv'
<1>1. CallsKept /\ AnswerKept /\ ResultKept /\ Call' = Call
  BY SetGone DEF Inv, CallsKept
<1>2. /\ ~up' /\ up' \in BOOLEAN /\ envs' = {} /\ open' = {} /\ copying' = {}
      /\ events' = events
  BY DEF Gone
<1>3. Later /\ StreamsOK' /\ EntriesOK' /\ EntriesHaveOwners' /\ WantedIsKnown'
  BY <1>1, <1>2, ClientUntouched
<1>4. TypeOK'
  <2>1. Frame' = Frame
    BY <1>1 DEF Frame
  <2> QED BY <1>1, <1>2, <2>1, TypesKept DEF Inv, TypeOK, handleVars
<1> QED BY <1>2, <1>3, <1>4 DEF Inv, AnswersOK, GrantedIsCopied

LEMMA ServerKeeps ==
    ASSUME Inv, Server
    PROVE  Inv'
<1>1. CASE /\ \E n \in Call : \/ Refuse(n) \/ Ensure(n) \/ Opens(n) \/ Closes(n)
                              \/ Freezes(n) \/ Revokes(n)
           /\ UNCHANGED <<toClient, clientVars, up>>
  BY <1>1, HandlerKeeps
<1>2. CASE /\ \E n \in Call : Reply(n) \/ Busy(n)
           /\ UNCHANGED <<clientVars, up, serverVars>>
  BY <1>2, ReplyKeeps
<1>3. CASE /\ \E s \in Call : CopyEnds(s) \/ SendEvent(s)
           /\ UNCHANGED <<calls, clientVars, up>>
  BY <1>3, CopyKeeps
<1>4. CASE /\ \E s \in Call : Elsewhere(s)
           /\ UNCHANGED <<calls, toClient, clientVars, up>>
  BY <1>4, ElsewhereKeeps
<1>5. CASE Drop /\ UNCHANGED <<toClient, clientVars>>
  BY <1>5, GoneKeeps DEF Drop, clientVars, Inv, TypeOK
<1> QED BY <1>1, <1>2, <1>3, <1>4, <1>5 DEF Server

----------------------------------------------------------------------------
(* Calls begin.                                                            *)

LEMMA BeginsKeeps ==
    ASSUME Inv, ClientAssumption, NEW m, NEW g \in Grant, NEW s \in Nat, Calls(m, g, s),
           NEW n, n = Len(calls) + 1,
           toClient' \in Seq(Frame), Frames' \subseteq Frames,
           \A f \in Frames : f.kind # "event" => f \in Frames',
           dead \subseteq dead', dead' \subseteq Call,
           m \in Opening => s = n,
           m \in Closing =>
              s \in Call /\ calls[s].method \in Opening /\ calls[s].grant = g,
           m \notin Opening \cup Closing => s = Nothing,
           cterms' \in [Grant -> Slot \cup {n}], cobs' \in [Grant -> Slot \cup {n}],
           \A h \in Grant : \/ cterms'[h] \in {cterms[h], Nothing}
                            \/ h = g /\ m = "attach" /\ cterms'[h] = n,
           \A h \in Grant : \/ cobs'[h] \in {cobs[h], Nothing}
                            \/ h = g /\ m = "watch" /\ cobs'[h] = n,
           \A k \in Call : Wanted(k)' /\ k \in {cterms[calls[k].grant], cobs[calls[k].grant]}
              => k \in {cterms'[calls[k].grant], cobs'[calls[k].grant]},
           m \in Opening => n \in {cterms'[g], cobs'[g]},
           UNCHANGED <<cclosed, loop, up, serverVars>>
    PROVE  Inv'
<1>1. /\ calls' \in Seq(CallRec)
      /\ n \notin Call /\ n \in Nat /\ n # Nothing /\ Call' = Call \cup {n}
      /\ \A k \in Call : calls'[k] = calls[k] /\ k < n
      /\ calls'[n].method = m /\ calls'[n].grant = g /\ calls'[n].stream = s
      /\ calls'[n].server = "sent" /\ calls'[n].answer = "none"
      /\ calls'[n].result = "none" /\ m \in Methods
  BY AddCall DEF Inv
<1>2. /\ Len(calls) \in Nat
      /\ \A k \in Call : /\ k \in Nat /\ k # Nothing /\ calls[k] \in CallRec
                         /\ 1 .. k - 1 \subseteq Call
  BY CallFacts DEF Inv, TypeOK, Call
<1>3. UNCHANGED <<cclosed, loop, up, envs, open, copying, events>>
  BY DEF serverVars
<1>4. Later
  BY <1>1, <1>3 DEF Later, Kept
<1>5. TypeOK'
  <2>1. Seq(Frame) \subseteq Seq(Frame')
    <3>1. Frame \subseteq Frame'
      BY <1>1 DEF Frame
    <3> QED BY <3>1
  <2>2. \A h \in Grant : cterms'[h] \in Slot' /\ cobs'[h] \in Slot'
    BY <1>1 DEF Inv, TypeOK, Slot
  <2>3. cterms' \in [Grant -> Slot'] /\ cobs' \in [Grant -> Slot']
    BY <2>2
  <2>4. toClient' \in Seq(Frame')
    BY <2>1
  <2>5. dead' \subseteq Call' /\ open \subseteq Call' /\ copying \subseteq Call'
    BY <1>1 DEF Inv, TypeOK
  <2> QED BY <1>1, <1>3, <2>3, <2>4, <2>5 DEF Inv, TypeOK
<1>6. \A k \in Call : calls[k].stream \in Call \cup {Nothing}
  BY <1>2 DEF Inv, StreamsOK
<1>7. StreamsOK'
  <2>1. ASSUME NEW k \in Call
        PROVE  /\ calls'[k].method \in Opening => calls'[k].stream = k
               /\ calls'[k].method \in Closing =>
                     /\ calls'[k].stream \in 1 .. k - 1
                     /\ calls'[calls'[k].stream].method \in Opening
                     /\ calls'[calls'[k].stream].grant = calls'[k].grant
               /\ calls'[k].method \notin Opening \cup Closing => calls'[k].stream = Nothing
    BY <1>1, <1>2 DEF Inv, StreamsOK
  <2>2. /\ calls'[n].method \in Opening => calls'[n].stream = n
        /\ calls'[n].method \in Closing =>
              /\ calls'[n].stream \in 1 .. n - 1
              /\ calls'[calls'[n].stream].method \in Opening
              /\ calls'[calls'[n].stream].grant = calls'[n].grant
        /\ calls'[n].method \notin Opening \cup Closing => calls'[n].stream = Nothing
    <3>1. Call = 1 .. n - 1
      BY <1>2 DEF Call
    <3> QED BY <1>1, <3>1
  <2> QED BY <1>1, <2>1, <2>2 DEF StreamsOK
<1>8. EntriesOK'
  <2>1. \A h \in Grant : cterms[h] \in Call \cup {Nothing} /\ cobs[h] \in Call \cup {Nothing}
    BY DEF Inv, TypeOK, Slot
  <2> QED BY <1>1, <2>1 DEF Inv, EntriesOK
<1>9. EntriesHaveOwners'
  <2>1. SUFFICES ASSUME NEW e \in Call', e \in {cterms'[calls'[e].grant], cobs'[calls'[e].grant]}
                 PROVE  /\ calls'[e].result \in {"none", "ok"}
                        /\ \A k \in Call' : calls'[k].stream = e /\ k # e => calls'[k].result = "none"
    BY DEF EntriesHaveOwners
  <2>2. CASE e = n
    BY <1>1, <1>2, <1>6, <2>2
  <2>3. CASE e \in Call
    <3>1. calls'[e] = calls[e] /\ calls[e].grant \in Grant /\ e # n /\ e # Nothing
      BY <1>1, <1>2, <2>3 DEF CallRec
    <3>2. e \in {cterms[calls[e].grant], cobs[calls[e].grant]}
      BY <2>1, <3>1
    <3>3. /\ calls[e].result \in {"none", "ok"}
          /\ \A k \in Call : calls[k].stream = e /\ k # e => calls[k].result = "none"
      BY <2>3, <3>2 DEF Inv, EntriesHaveOwners
    <3> QED BY <1>1, <3>1, <3>3
  <2> QED BY <1>1, <2>2, <2>3
<1>10. WantedIsKnown'
  <2>1. ASSUME NEW k \in Call, Wanted(k)'
        PROVE  k \in {cterms'[calls'[k].grant], cobs'[calls'[k].grant]}
    <3>1. k \in {cterms[calls[k].grant], cobs[calls[k].grant]}
      BY <1>4, <2>1, WantedBefore DEF Inv, WantedIsKnown
    <3> QED BY <1>1, <2>1, <3>1
  <2>2. Wanted(n)' => n \in {cterms'[calls'[n].grant], cobs'[calls'[n].grant]}
    BY <1>1 DEF Wanted
  <2> QED BY <1>1, <2>1, <2>2 DEF WantedIsKnown
<1>11. \A k \in Call, st \in Status : Answered(k, st)' => Answered(k, st)
  BY <1>1 DEF Answered
<1>12. \A st \in Status : ~Answered(n, st)'
  <2> SUFFICES ASSUME NEW st \in Status PROVE [kind |-> st, of |-> n] \notin Frames'
    BY <1>1 DEF Answered, Status
  <2>1. [kind |-> st, of |-> n].of = n
    OBVIOUS
  <2> QED BY <1>1, <2>1, FrameFacts DEF Inv
<1>13. AnswersOK'
  <2> SUFFICES ASSUME up PROVE AnswersOK'
    BY <1>3 DEF AnswersOK
  <2>1. open \subseteq Call
    BY DEF Inv, TypeOK
  <2>2. \A e \in open : calls'[e].server # "sent" /\ ~Answered(e, "error")'
    BY <1>1, <1>11, <2>1 DEF Inv, AnswersOK, Status
  <2>3. \A k \in Call', st \in Status : Answered(k, st)' => calls'[k].server # "sent"
    BY <1>1, <1>11, <1>12 DEF Inv, AnswersOK
  <2>4. ASSUME NEW k \in Call', Answered(k, "ok")'
        PROVE  /\ \A j \in 1 .. k - 1 :
                     calls'[j].grant = calls'[k].grant => calls'[j].server = "replied"
               /\ calls'[k].method \in Closing => calls'[k].stream \notin open
               /\ \A e \in open : e < k => ~Ends(k, e)'
    <3>1. k \in Call
      BY <1>1, <1>12, <2>4 DEF Status
    <3>2. Answered(k, "ok")
      BY <1>11, <2>4, <3>1 DEF Status
    <3>3. /\ \A j \in 1 .. k - 1 :
                calls[j].grant = calls[k].grant => calls[j].server = "replied"
          /\ calls[k].method \in Closing => calls[k].stream \notin open
          /\ \A e \in open : e < k => ~Ends(k, e)
      BY <3>1, <3>2 DEF Inv, AnswersOK
    <3>4. \A e \in open : Ends(k, e)' => Ends(k, e)
      BY <1>1, <2>1, <3>1 DEF Ends
    <3> QED BY <1>1, <1>2, <2>1, <3>1, <3>3, <3>4
  <2> QED BY <1>3, <2>2, <2>3, <2>4 DEF AnswersOK
<1>14. GrantedIsCopied'
  <2> SUFFICES ASSUME up, NEW k \in Call', Wanted(k)', Answered(k, "ok")'
               PROVE  k \in copying \/ [kind |-> "end", of |-> k] \in Frames'
    BY <1>3 DEF GrantedIsCopied
  <2>1. k \in Call /\ Answered(k, "ok")
    BY <1>1, <1>11, <1>12 DEF Status
  <2>2. k \in copying \/ [kind |-> "end", of |-> k] \in Frames
    BY <1>4, <2>1, WantedBefore DEF Inv, GrantedIsCopied
  <2>3. [kind |-> "end", of |-> k].kind # "event"
    OBVIOUS
  <2> QED BY <2>2, <2>3
<1> QED BY <1>5, <1>7, <1>8, <1>9, <1>10, <1>13, <1>14 DEF Inv

LEMMA CallsKeep ==
    ASSUME Inv, ClientAssumption, UNCHANGED <<toClient, cclosed, loop, up, serverVars>>,
           \/ \E g \in Grant : \/ Attach(g) \/ Watch(g)
                               \/ \E m \in Methods : Control(m, g)
           \/ \E s \in Call : CloseTerminal(s) \/ CloseObservation(s)
    PROVE  Inv'
<1> DEFINE n == Len(calls) + 1
<1>1. /\ n \in Nat /\ n # Nothing /\ n \notin Call
      /\ cterms \in [Grant -> Slot] /\ cobs \in [Grant -> Slot] /\ dead \subseteq Call
      /\ toClient' \in Seq(Frame) /\ Frames' = Frames
      /\ \A s \in Call : s \in Nat /\ calls[s].grant \in Grant /\ s # Nothing
  <2>1. TypeOK /\ toClient' = toClient
    BY DEF Inv
  <2>2. Len(calls) \in Nat /\ \A s \in Call : s \in Nat /\ s # Nothing /\ calls[s] \in CallRec
    BY <2>1, CallFacts DEF TypeOK
  <2>3. n \in Nat /\ n # Nothing /\ n \notin Call
    BY <2>2 DEF Call, Nothing
  <2>4. /\ cterms \in [Grant -> Slot] /\ cobs \in [Grant -> Slot] /\ dead \subseteq Call
        /\ toClient' \in Seq(Frame)
    BY <2>1 DEF TypeOK
  <2>5. Frames' = Frames
    BY <2>1 DEF Frames
  <2> QED BY <2>2, <2>3, <2>4, <2>5 DEF CallRec
<1> HIDE DEF n
<1>2. n = Len(calls) + 1
  BY DEF n
<1>3. ASSUME NEW g \in Grant, Attach(g) PROVE Inv'
  <2>1. /\ cterms[g] = Nothing /\ Calls("attach", g, n)
        /\ cterms' = [cterms EXCEPT ![g] = n] /\ UNCHANGED <<cobs, dead>>
    BY <1>2, <1>3 DEF Attach
  <2>2. /\ cterms'[g] = n /\ \A h \in Grant : h # g => cterms'[h] = cterms[h]
        /\ cterms' \in [Grant -> Slot \cup {n}] /\ cobs' \in [Grant -> Slot \cup {n}]
    BY <1>1, <2>1
  <2>3. \A k \in Call : k \in {cterms[calls[k].grant], cobs[calls[k].grant]}
           => k \in {cterms'[calls[k].grant], cobs'[calls[k].grant]}
    BY <1>1, <2>1, <2>2
  <2>4. /\ \A h \in Grant : cterms'[h] = cterms[h] \/ (h = g /\ cterms'[h] = n)
        /\ \A h \in Grant : cobs'[h] = cobs[h]
        /\ n \in {cterms'[g], cobs'[g]} /\ dead \subseteq dead' /\ dead' \subseteq Call
        /\ "attach" \in Opening /\ "attach" \notin Closing
    BY <1>1, <2>1, <2>2 DEF Opening, Closing
  <2> HIDE DEF n
  <2> QED BY <1>1, <1>2, <2>1, <2>2, <2>3, <2>4, BeginsKeeps
<1>4. ASSUME NEW g \in Grant, Watch(g) PROVE Inv'
  <2>1. /\ cobs[g] = Nothing /\ Calls("watch", g, n)
        /\ cobs' = [cobs EXCEPT ![g] = n] /\ UNCHANGED <<cterms, dead>>
    BY <1>2, <1>4 DEF Watch
  <2>2. /\ cobs'[g] = n /\ \A h \in Grant : h # g => cobs'[h] = cobs[h]
        /\ cterms' \in [Grant -> Slot \cup {n}] /\ cobs' \in [Grant -> Slot \cup {n}]
    BY <1>1, <2>1
  <2>3. \A k \in Call : k \in {cterms[calls[k].grant], cobs[calls[k].grant]}
           => k \in {cterms'[calls[k].grant], cobs'[calls[k].grant]}
    BY <1>1, <2>1, <2>2
  <2>4. /\ \A h \in Grant : cobs'[h] = cobs[h] \/ (h = g /\ cobs'[h] = n)
        /\ \A h \in Grant : cterms'[h] = cterms[h]
        /\ n \in {cterms'[g], cobs'[g]} /\ dead \subseteq dead' /\ dead' \subseteq Call
        /\ "watch" \in Opening /\ "watch" \notin Closing
    BY <1>1, <2>1, <2>2 DEF Opening, Closing
  <2> HIDE DEF n
  <2> QED BY <1>1, <1>2, <2>1, <2>2, <2>3, <2>4, BeginsKeeps
<1>5. cterms \in [Grant -> Slot \cup {n}] /\ cobs \in [Grant -> Slot \cup {n}]
  BY <1>1
<1>6. ASSUME NEW g \in Grant, NEW m \in Methods, Control(m, g) PROVE Inv'
  <2>1. /\ m \in {"ensure", "freeze", "revoke"} /\ Calls(m, g, Nothing)
        /\ UNCHANGED <<cterms, cobs, dead>>
    BY <1>6 DEF Control, handleVars
  <2>2. Nothing \in Nat
    BY DEF Nothing
  <2> QED BY <1>1, <1>2, <1>5, <2>1, <2>2, BeginsKeeps DEF Opening, Closing
<1>7. ASSUME NEW s \in Call, CloseTerminal(s) \/ CloseObservation(s) PROVE Inv'
  <2>1. PICK m \in Closing :
           /\ calls[s].method \in Opening /\ Calls(m, calls[s].grant, s)
           /\ dead \subseteq dead' /\ dead' \subseteq dead \cup {s}
           /\ UNCHANGED <<cterms, cobs>>
    BY <1>7 DEF CloseTerminal, CloseObservation, Held, handleVars, Opening, Closing
  <2> QED BY <1>1, <1>2, <1>5, <2>1, BeginsKeeps DEF Opening, Closing
<1> QED BY <1>3, <1>4, <1>6, <1>7

----------------------------------------------------------------------------
(* Calls return, and the read loop.                                        *)

\* What the client does, calls apart: entries go that nobody wants, and frames
\* that were read.
LEMMA ClientKeeps ==
    ASSUME Inv, CallsKept, ServerKept, Later, EntriesHaveOwners',
           toClient' \in Seq(Frame), Frames' \subseteq Frames,
           cterms' \in [Grant -> Slot], cobs' \in [Grant -> Slot], dead' \subseteq Call,
           \A g \in Grant : cterms'[g] \in {cterms[g], Nothing},
           \A g \in Grant : cobs'[g] \in {cobs[g], Nothing},
           \A k \in Call : Wanted(k)' /\ k \in {cterms[calls[k].grant], cobs[calls[k].grant]}
              => k \in {cterms'[calls[k].grant], cobs'[calls[k].grant]},
           up => \A k \in Call, st \in Status : Answered(k, st)' => Answered(k, st),
           up => \A k \in Call : Wanted(k)' /\ [kind |-> "end", of |-> k] \in Frames
              => [kind |-> "end", of |-> k] \in Frames',
           cclosed' \in BOOLEAN, loop' \in {"running", "returned", "panicked"},
           UNCHANGED <<up, serverVars>>
    PROVE  Inv'
<1>1. Call' = Call /\ UNCHANGED <<up, envs, open, copying, events>>
  BY DEF CallsKept, serverVars
<1>2. TypeOK'
  <2>1. Frame' = Frame
    BY <1>1 DEF Frame
  <2> QED BY <1>1, <2>1, TypesKept DEF Inv, TypeOK
<1>3. StreamsOK' /\ EntriesOK'
  BY ShapeKept DEF Inv
<1>4. WantedIsKnown'
  BY <1>1, KnownKept DEF Inv
<1>5. AnswersOK'
  BY <1>1, AnswersKept DEF Inv, ServerKept
<1>6. GrantedIsCopied'
  <2>1. up' => \A s \in Call : Answered(s, "ok")' => Answered(s, "ok")
    BY <1>1 DEF Status
  <2> QED BY <1>1, <2>1, CopiedKept DEF Inv
<1> QED BY <1>2, <1>3, <1>4, <1>5, <1>6 DEF Inv

LEMMA RemovedFacts ==
    ASSUME NEW entries \in [Grant -> Slot], NEW s \in Call, calls[s].grant \in Grant,
           s # Nothing
    PROVE  /\ Removed(entries, s) \in [Grant -> Slot]
           /\ Removed(entries, s)[calls[s].grant] # s
           /\ \A g \in Grant : \/ Removed(entries, s)[g] = entries[g]
                               \/ Removed(entries, s)[g] = Nothing /\ entries[g] = s
BY DEF Removed, Slot

LEMMA ReturnsKeep ==
    ASSUME Inv, NEW n \in Call, Returns(n),
           UNCHANGED <<toClient, cclosed, loop, up, serverVars>>
    PROVE  Inv'
<1>1. PICK r \in {calls[n].answer, "expired"} \ {"none"} :
         /\ calls[n].result = "none"
         /\ calls' = [calls EXCEPT ![n].result = r, ![n].answer = "none"]
         /\ \/ OpenReturns(n, r) \/ CloseReturns(n) \/ EndReturns(n)
            \/ calls[n].method \in {"ensure", "revoke"} /\ UNCHANGED handleVars
  BY DEF Returns
<1>2. /\ \A k \in Call : /\ k \in Nat /\ k # Nothing /\ calls[k] \in CallRec
                         /\ calls[k].grant \in Grant
      /\ cterms \in [Grant -> Slot] /\ cobs \in [Grant -> Slot] /\ dead \subseteq Call
      /\ toClient \in Seq(Frame) /\ cclosed \in BOOLEAN
      /\ loop \in {"running", "returned", "panicked"}
  BY CallFacts DEF Inv, TypeOK, CallRec
<1>3. r \in {"lost", "expired"} \cup Status
  BY <1>2 DEF CallRec
<1>4. /\ CallsKept /\ ServerKept /\ calls'[n].answer = "none" /\ calls'[n].result = r
      /\ \A k \in Call \ {n} : /\ calls'[k].answer = calls[k].answer
                               /\ calls'[k].result = calls[k].result
  BY <1>1, <1>3, SetResult DEF Inv
<1>5. Call' = Call /\ Frames' = Frames /\ \A k \in Call : Kept(k)
  BY <1>4 DEF CallsKept, Frames
\* What becomes of the entries and of the dead.
<1>6. /\ cterms' \in [Grant -> Slot] /\ cobs' \in [Grant -> Slot]
      /\ dead \subseteq dead' /\ dead' \subseteq Call
      /\ \A g \in Grant : \/ cterms'[g] = cterms[g]
                          \/ /\ cterms'[g] = Nothing
                             /\ cterms[g] \in dead' \/ cterms[g] = calls[n].stream
      /\ \A g \in Grant : \/ cobs'[g] = cobs[g]
                          \/ cobs'[g] = Nothing /\ cobs[g] = calls[n].stream
      /\ calls[n].method \in Opening => r = "ok" \/ n \in dead'
      /\ calls[n].method \in Opening /\ r # "ok" =>
            n \notin {cterms'[calls[n].grant], cobs'[calls[n].grant]}
      /\ calls[n].method \in Closing =>
            LET g == calls[calls[n].stream].grant
            IN  calls[n].stream \notin {cterms'[g], cobs'[g]}
      /\ calls[n].method \notin Opening \cup Closing =>
            /\ cobs' = cobs
            /\ \A g \in Grant : cterms'[g] = cterms[g] \/ cterms[g] \in dead'
  <2>1. CASE OpenReturns(n, r)
    <3>1. calls[n].method \in Opening /\ calls[n].stream = n
      BY <2>1 DEF OpenReturns, Opening, Inv, StreamsOK
    <3>2. CASE r = "ok"
      <4>1. UNCHANGED <<cterms, cobs, dead>>
        BY <2>1, <3>2 DEF OpenReturns, Failed, handleVars
      <4> QED BY <1>2, <3>1, <3>2, <4>1 DEF Opening, Closing
    <3>3. CASE r # "ok"
      <4>1. dead' = dead \cup {n} /\ cterms' = Removed(cterms, n) /\ cobs' = Removed(cobs, n)
        BY <2>1, <3>3 DEF OpenReturns, Failed
      <4>2. /\ Removed(cterms, n) \in [Grant -> Slot]
            /\ Removed(cterms, n)[calls[n].grant] # n
            /\ \A g \in Grant : \/ Removed(cterms, n)[g] = cterms[g]
                                \/ Removed(cterms, n)[g] = Nothing /\ cterms[g] = n
        BY <1>2, RemovedFacts
      <4>3. /\ Removed(cobs, n) \in [Grant -> Slot]
            /\ Removed(cobs, n)[calls[n].grant] # n
            /\ \A g \in Grant : \/ Removed(cobs, n)[g] = cobs[g]
                                \/ Removed(cobs, n)[g] = Nothing /\ cobs[g] = n
        BY <1>2, RemovedFacts
      <4> QED BY <1>2, <3>1, <3>3, <4>1, <4>2, <4>3 DEF Opening, Closing
    <3> QED BY <3>2, <3>3
  <2>2. CASE CloseReturns(n)
    <3> DEFINE s == calls[n].stream
    <3>1. calls[n].method \in Closing /\ s \in Call /\ dead' = dead
          /\ cterms' = Removed(cterms, s) /\ cobs' = Removed(cobs, s)
      <4>1. s \in 1 .. n - 1
        BY <2>2 DEF CloseReturns, Closing, Inv, StreamsOK
      <4>2. s \in Call
        BY <4>1, CallFacts DEF Inv, TypeOK, Call
      <4> QED BY <2>2, <4>2 DEF CloseReturns, Closing
    <3> HIDE DEF s
    <3>2. s = calls[n].stream
      BY DEF s
    <3>3. /\ Removed(cterms, s) \in [Grant -> Slot]
          /\ Removed(cterms, s)[calls[s].grant] # s
          /\ \A g \in Grant : \/ Removed(cterms, s)[g] = cterms[g]
                              \/ Removed(cterms, s)[g] = Nothing /\ cterms[g] = s
      BY <1>2, <3>1, RemovedFacts
    <3>4. /\ Removed(cobs, s) \in [Grant -> Slot]
          /\ Removed(cobs, s)[calls[s].grant] # s
          /\ \A g \in Grant : \/ Removed(cobs, s)[g] = cobs[g]
                              \/ Removed(cobs, s)[g] = Nothing /\ cobs[g] = s
      BY <1>2, <3>1, RemovedFacts
    <3> QED BY <1>2, <3>1, <3>2, <3>3, <3>4 DEF Opening, Closing
  <2>3. CASE EndReturns(n)
    <3>1. /\ calls[n].method \in {"freeze", "revoke"} /\ cobs' = cobs
          /\ cterms' = [cterms EXCEPT ![calls[n].grant] = Nothing]
          /\ dead' = dead \cup ({cterms[calls[n].grant]} \ {Nothing})
      BY <2>3 DEF EndReturns, HungUp
    <3>2. /\ cterms' \in [Grant -> Slot] /\ dead' \subseteq Call
          /\ \A g \in Grant : \/ cterms'[g] = cterms[g]
                              \/ cterms'[g] = Nothing /\ cterms[g] \in dead'
      BY <1>2, <3>1 DEF Slot
    <3> QED BY <1>2, <3>1, <3>2 DEF Opening, Closing
  <2>4. CASE calls[n].method \in {"ensure", "revoke"} /\ UNCHANGED handleVars
    BY <1>2, <2>4 DEF handleVars, Opening, Closing
  <2> QED BY <1>1, <2>1, <2>2, <2>3, <2>4
<1>7. Later
  BY <1>1, <1>4, <1>5, <1>6 DEF Later
<1>8. EntriesHaveOwners'
  <2>1. ASSUME NEW k \in Call, calls'[k].result # calls[k].result
        PROVE  /\ calls[k].stream \in Call =>
                     LET g == calls[calls[k].stream].grant
                     IN  k # calls[k].stream => calls[k].stream \notin {cterms'[g], cobs'[g]}
               /\ k \in {cterms'[calls[k].grant], cobs'[calls[k].grant]} =>
                     calls'[k].result \in {"none", "ok"}
    <3>1. k = n
      BY <1>4, <2>1
    <3>2. CASE calls[n].method \in Opening
      BY <1>4, <1>6, <3>1, <3>2 DEF Inv, StreamsOK
    <3>3. CASE calls[n].method \notin Opening
      <4>1. n \notin {cterms'[calls[n].grant], cobs'[calls[n].grant]}
        BY <1>2, <1>6, <3>3 DEF Inv, EntriesOK, Opening
      <4>2. calls[n].method \in Closing \/ calls[n].stream = Nothing
        BY <3>3 DEF Inv, StreamsOK
      <4> QED BY <1>2, <1>6, <3>1, <4>1, <4>2
    <3> QED BY <3>2, <3>3
  <2>2. /\ \A g \in Grant : cterms'[g] \in {cterms[g], Nothing}
        /\ \A g \in Grant : cobs'[g] \in {cobs[g], Nothing}
    BY <1>6
  <2> QED BY <1>4, <2>1, <2>2, OwnersKept DEF Inv
<1>9. ASSUME NEW k \in Call, Wanted(k)', k \in {cterms[calls[k].grant], cobs[calls[k].grant]}
      PROVE  k \in {cterms'[calls[k].grant], cobs'[calls[k].grant]}
  <2>1. k \notin dead' /\ k # Nothing /\ calls[k].grant \in Grant
    BY <1>2, <1>9 DEF Wanted
  <2>2. CASE k = calls[n].stream
    <3>1. calls[n].method \notin Closing
      BY <1>5, <1>9, <2>2 DEF Wanted, Kept
    <3>2. calls[n].method \in Opening /\ k = n
      BY <2>1, <2>2, <3>1 DEF Inv, StreamsOK
    <3>3. calls[n].method \in {"attach", "watch"} /\ r = "ok"
      BY <1>6, <2>1, <3>2 DEF Opening
    <3>4. UNCHANGED handleVars
      BY <1>1, <3>3 DEF OpenReturns, CloseReturns, EndReturns, Failed
    <3> QED BY <1>9, <3>4 DEF handleVars
  <2>3. CASE k # calls[n].stream
    BY <1>6, <1>9, <2>1, <2>3
  <2> QED BY <2>2, <2>3
<1>10. \A k \in Call, st \in Status : Answered(k, st)' => Answered(k, st)
  <2> SUFFICES ASSUME NEW k \in Call, NEW st \in Status, Answered(k, st)'
               PROVE  Answered(k, st)
    OBVIOUS
  <2>1. CASE k = n
    BY <1>1, <1>4, <1>5, <2>1 DEF Answered, ServerKept, Status
  <2>2. CASE k # n
    BY <1>4, <1>5, <2>2 DEF Answered, ServerKept
  <2> QED BY <2>1, <2>2
<1>11. /\ \A g \in Grant : cterms'[g] \in {cterms[g], Nothing}
       /\ \A g \in Grant : cobs'[g] \in {cobs[g], Nothing}
       /\ Frames' \subseteq Frames /\ toClient' \in Seq(Frame)
       /\ cclosed' \in BOOLEAN /\ loop' \in {"running", "returned", "panicked"}
  BY <1>2, <1>5, <1>6
<1> QED BY <1>4, <1>5, <1>6, <1>7, <1>8, <1>9, <1>10, <1>11, ClientKeeps

\* A frame is read that leaves the calls as they are, or answers one.
LEMMA ReadsKeep ==
    ASSUME Inv, CallsKept, ServerKept, ResultKept, toClient # <<>>, toClient' = Tail(toClient),
           NEW f, f = Head(toClient),
           \A k \in Call : calls'[k].answer = calls[k].answer
                           \/ f = [kind |-> calls'[k].answer, of |-> k],
           dead \subseteq dead', dead' \subseteq Call,
           cterms' \in [Grant -> Slot], cobs' \in [Grant -> Slot],
           \A g \in Grant : cterms'[g] = cterms[g],
           \A g \in Grant : cobs'[g] = cobs[g] \/ (cobs'[g] = Nothing /\ cobs[g] \in dead'),
           \A k \in Call : f = [kind |-> "end", of |-> k] => ~Wanted(k)',
           UNCHANGED <<cclosed, loop, up, serverVars>>
    PROVE  Inv'
<1>1. /\ toClient' \in Seq(Frame) /\ f \in Frames /\ Frames = Frames' \cup {f}
  BY TakeFrame DEF Inv
<1>2. Later
  BY DEF Later, CallsKept, ResultKept
<1>3. EntriesHaveOwners'
  <2>1. /\ \A g \in Grant : cterms'[g] \in {cterms[g], Nothing}
        /\ \A g \in Grant : cobs'[g] \in {cobs[g], Nothing}
    OBVIOUS
  <2> QED BY <2>1, OwnersKept DEF Inv, ResultKept
<1>4. \A k \in Call : Wanted(k)' /\ k \in {cterms[calls[k].grant], cobs[calls[k].grant]}
         => k \in {cterms'[calls[k].grant], cobs'[calls[k].grant]}
  <2>1. \A k \in Call : calls[k].grant \in Grant
    BY CallFacts DEF Inv, TypeOK, CallRec
  <2> QED BY <2>1 DEF Wanted
<1>5. \A k \in Call, st \in Status : Answered(k, st)' => Answered(k, st)
  BY <1>1 DEF Answered, ServerKept, ResultKept
<1>6. \A k \in Call : Wanted(k)' /\ [kind |-> "end", of |-> k] \in Frames
         => [kind |-> "end", of |-> k] \in Frames'
  BY <1>1
<1>7. /\ \A g \in Grant : cterms'[g] \in {cterms[g], Nothing}
      /\ \A g \in Grant : cobs'[g] \in {cobs[g], Nothing}
      /\ Frames' \subseteq Frames
      /\ cclosed' \in BOOLEAN /\ loop' \in {"running", "returned", "panicked"}
  BY <1>1 DEF Inv, TypeOK
<1> QED BY <1>1, <1>2, <1>3, <1>4, <1>5, <1>6, <1>7, ClientKeeps

LEMMA FinishFacts ==
    ASSUME Inv, NEW s \in Call, FinishObservation(s)
    PROVE  /\ dead' = dead \cup {s} /\ dead' \subseteq Call /\ cterms' = cterms
           /\ cobs' \in [Grant -> Slot]
           /\ \A g \in Grant : cobs'[g] = cobs[g] \/ (cobs'[g] = Nothing /\ cobs[g] \in dead')
<1>1. /\ s # Nothing /\ calls[s].grant \in Grant /\ cobs \in [Grant -> Slot]
      /\ dead \subseteq Call
  BY CallFacts DEF Inv, TypeOK, CallRec
<1>2. dead' = dead \cup {s} /\ cobs' = Removed(cobs, s) /\ cterms' = cterms
  BY DEF FinishObservation
<1> QED BY <1>1, <1>2, RemovedFacts

LEMMA ReadKeeps ==
    ASSUME Inv, ClientAssumption, Read, UNCHANGED <<cclosed, loop, up, serverVars>>
    PROVE  Inv'
<1>0. PICK f : f = Head(toClient)
  OBVIOUS
<1>1. /\ toClient # <<>> /\ toClient' = Tail(toClient)
      /\ \/ f.kind \in {"ok", "error"} /\ ReadResponse(f.of, f.kind)
         \/ f.kind = "end" /\ ReadEnd(f.of)
         \/ f.kind = "event" /\ ReadEvent(f.of)
  BY <1>0 DEF Read
<1>2. /\ f \in Frame /\ f \in Frames /\ toClient' \in Seq(Frame)
      /\ Frames = Frames' \cup {f}
  BY <1>1, <1>0, TakeFrame DEF Inv
<1>3. f.of \in Call /\ f = [kind |-> f.kind, of |-> f.of]
  BY <1>2 DEF Frame
<1>5. /\ \A k \in Call : k \in Nat /\ k # Nothing /\ calls[k].grant \in Grant
      /\ cterms \in [Grant -> Slot] /\ cobs \in [Grant -> Slot] /\ dead \subseteq Call
  BY CallFacts DEF Inv, TypeOK, CallRec
<1>6. CASE f.kind \in {"ok", "error"} /\ ReadResponse(f.of, f.kind)
  <2>1. UNCHANGED <<cterms, cobs, dead>>
    BY <1>6 DEF ReadResponse, handleVars
  <2>2. \A k \in Call : f # [kind |-> "end", of |-> k]
    BY <1>3, <1>6
  <2>3. /\ CallsKept /\ ServerKept /\ ResultKept
        /\ \A k \in Call : calls'[k].answer = calls[k].answer
                           \/ f = [kind |-> calls'[k].answer, of |-> k]
    <3>1. CASE UNCHANGED calls
      BY <3>1, SameCalls DEF Inv, AnswerKept
    <3>2. CASE calls' = [calls EXCEPT ![f.of].answer = f.kind]
      <4>1. /\ CallsKept /\ ServerKept /\ ResultKept /\ calls'[f.of].answer = f.kind
            /\ \A k \in Call \ {f.of} : calls'[k].answer = calls[k].answer
        BY <1>3, <1>6, <3>2, SetAnswer DEF Inv, Status
      <4> QED BY <1>3, <4>1
    <3> QED BY <1>6, <3>1, <3>2 DEF ReadResponse
  <2> QED BY <1>1, <1>0, <1>5, <2>1, <2>2, <2>3, ReadsKeep
<1>7. CASE f.kind = "end" /\ ReadEnd(f.of)
  <2>0. PICK s \in Call : s = f.of
    BY <1>3
  <2> DEFINE g == calls[s].grant
  <2>1. /\ \/ cterms[g] = s /\ dead' = dead \cup {s} /\ UNCHANGED <<cterms, cobs>>
           \/ cobs[g] = s /\ FinishObservation(s)
           \/ s \notin {cterms[g], cobs[g]} /\ UNCHANGED handleVars
        /\ UNCHANGED calls
    BY <1>7, <2>0 DEF ReadEnd
  <2>2. /\ CallsKept /\ ServerKept /\ AnswerKept /\ ResultKept
    BY <2>1, SameCalls DEF Inv
  <2>3. /\ dead \subseteq dead' /\ dead' \subseteq Call
        /\ cterms' = cterms /\ cobs' \in [Grant -> Slot]
        /\ \A h \in Grant : cobs'[h] = cobs[h] \/ (cobs'[h] = Nothing /\ cobs[h] \in dead')
        /\ s \in dead' \/ s \notin {cterms[g], cobs[g]}
    <3>1. CASE cterms[g] = s /\ dead' = dead \cup {s} /\ UNCHANGED <<cterms, cobs>>
      BY <1>3, <1>5, <3>1
    <3>2. CASE cobs[g] = s /\ FinishObservation(s)
      BY <1>3, <3>2, FinishFacts
    <3>3. CASE s \notin {cterms[g], cobs[g]} /\ UNCHANGED handleVars
      BY <1>5, <3>3 DEF handleVars
    <3> QED BY <2>1, <3>1, <3>2, <3>3
  <2>4. ~Wanted(s)'
    <3>1. CASE s \in dead'
      BY <3>1 DEF Wanted
    <3>2. CASE s \notin {cterms[g], cobs[g]}
      <4>1. Later
        BY <2>2, <2>3 DEF Later, CallsKept, ResultKept
      <4>2. ~Wanted(s)
        BY <1>3, <3>2 DEF Inv, WantedIsKnown
      <4> QED BY <1>3, <4>1, <4>2, WantedBefore
    <3> QED BY <2>3, <3>1, <3>2
  <2>5. \A k \in Call : f = [kind |-> "end", of |-> k] => ~Wanted(k)'
    BY <1>3, <2>4, <2>0
  <2> HIDE DEF g
  <2> QED BY <1>1, <1>0, <1>5, <2>2, <2>3, <2>5, ReadsKeep DEF AnswerKept
<1>8. CASE f.kind = "event" /\ ReadEvent(f.of)
  <2>0. PICK s \in Call : s = f.of
    BY <1>3
  <2>1. \/ UNCHANGED <<calls, handleVars>>
        \/ /\ FinishObservation(s)
           /\ UNCHANGED calls \/ Calls("unwatch", calls[s].grant, s)
           /\ cobs[calls[s].grant] = s
    BY <1>8, <2>0 DEF ReadEvent
  <2>2. \A k \in Call : f # [kind |-> "end", of |-> k]
    BY <1>3, <1>8
  <2>3. CASE UNCHANGED <<calls, handleVars>>
    <3>1. CallsKept /\ ServerKept /\ AnswerKept /\ ResultKept
      BY <2>3, SameCalls DEF Inv
    <3> QED BY <1>1, <1>0, <1>5, <2>2, <2>3, <3>1, ReadsKeep DEF handleVars, AnswerKept
  <2>4. CASE FinishObservation(s) /\ cobs[calls[s].grant] = s
    <3>1. /\ dead' = dead \cup {s} /\ dead' \subseteq Call /\ cterms' = cterms
          /\ cobs' \in [Grant -> Slot]
          /\ \A h \in Grant : cobs'[h] = cobs[h] \/ (cobs'[h] = Nothing /\ cobs[h] \in dead')
      BY <1>3, <2>4, FinishFacts
    <3>2. CASE UNCHANGED calls
      <4>1. CallsKept /\ ServerKept /\ AnswerKept /\ ResultKept
        BY <3>2, SameCalls DEF Inv
      <4> QED BY <1>1, <1>0, <1>5, <2>2, <3>1, <4>1, ReadsKeep DEF AnswerKept
    <3>3. CASE Calls("unwatch", calls[s].grant, s)
      <4>1. calls[s].method = "watch"
        BY <1>3, <1>5, <2>4 DEF Inv, EntriesOK
      <4>2. \A k \in Frames : k.kind # "event" => k \in Frames'
        BY <1>2, <1>8
      <4>3. \A k \in Call : Wanted(k)' /\ k \in {cterms[calls[k].grant], cobs[calls[k].grant]}
               => k \in {cterms'[calls[k].grant], cobs'[calls[k].grant]}
        BY <1>5, <3>1 DEF Wanted
      <4>4. PICK n : n = Len(calls) + 1
        OBVIOUS
      <4>5. PICK m \in Closing, g \in Grant : m = "unwatch" /\ g = calls[s].grant
        BY <1>5 DEF Closing
      <4>6. /\ cterms' \in [Grant -> Slot \cup {n}] /\ cobs' \in [Grant -> Slot \cup {n}]
            /\ \A h \in Grant : cterms'[h] \in {cterms[h], Nothing}
            /\ \A h \in Grant : cobs'[h] \in {cobs[h], Nothing}
        BY <1>5, <3>1
      <4>7. /\ m \notin Opening /\ calls[s].method \in Opening /\ s \in Nat
            /\ dead \subseteq dead' /\ dead' \subseteq Call /\ Frames' \subseteq Frames
        BY <1>2, <1>5, <3>1, <4>1, <4>5 DEF Opening
      <4>8. Calls(m, g, s)
        BY <3>3, <4>5
      <4> QED BY <1>2, <4>2, <4>3, <4>4, <4>5, <4>6, <4>7, <4>8, BeginsKeeps
    <3> QED BY <2>1, <2>4, <3>2, <3>3
  <2> QED BY <2>1, <2>3, <2>4
<1> QED BY <1>1, <1>6, <1>7, <1>8

LEMMA FailAllKeeps ==
    ASSUME Inv, FailAll, UNCHANGED <<up, serverVars>>
    PROVE  Inv'
<1>1. /\ ~up /\ loop' = "returned" /\ cclosed' = TRUE /\ calls' = FailedCalls
      /\ dead' = (dead \cup {cterms[g] : g \in Grant} \cup {cobs[g] : g \in Grant}) \ {Nothing}
      /\ cterms' = [g \in Grant |-> Nothing] /\ cobs' = [g \in Grant |-> Nothing]
      /\ toClient' = <<>>
  BY DEF FailAll
<1>2. CallsKept /\ ServerKept /\ ResultKept
  BY <1>1, SetLost DEF Inv
<1>3. /\ \A k \in Call : k # Nothing /\ calls[k].grant \in Grant
      /\ cterms \in [Grant -> Slot] /\ cobs \in [Grant -> Slot] /\ dead \subseteq Call
  BY CallFacts DEF Inv, TypeOK, CallRec
<1>4. dead \subseteq dead' /\ dead' \subseteq Call
  BY <1>1, <1>3 DEF Slot
<1>5. \A k \in Call : k \in {cterms[calls[k].grant], cobs[calls[k].grant]} => k \in dead'
  BY <1>1, <1>3
<1>6. /\ cterms' \in [Grant -> Slot] /\ cobs' \in [Grant -> Slot]
      /\ \A g \in Grant : cterms'[g] \in {cterms[g], Nothing}
      /\ \A g \in Grant : cobs'[g] \in {cobs[g], Nothing}
  BY <1>1 DEF Slot
<1>7. Later
  BY <1>2, <1>4 DEF Later, CallsKept, ResultKept
<1>8. EntriesHaveOwners'
  BY <1>2, <1>6, OwnersKept DEF Inv, ResultKept
<1>9. toClient' \in Seq(Frame) /\ Frames' \subseteq Frames
  BY <1>1 DEF Frames
<1>10. \A k \in Call : ~(Wanted(k)' /\ k \in {cterms[calls[k].grant], cobs[calls[k].grant]})
  BY <1>5 DEF Wanted
<1> QED BY <1>1, <1>2, <1>4, <1>6, <1>7, <1>8, <1>9, <1>10, ClientKeeps

LEMMA ClientStepKeeps ==
    ASSUME Inv, ClientAssumption, Client
    PROVE  Inv'
<1>1. CASE /\ \/ \E g \in Grant : \/ Attach(g) \/ Watch(g)
                                  \/ \E m \in Methods : Control(m, g)
              \/ \E n \in Call : CloseTerminal(n) \/ CloseObservation(n) \/ Returns(n)
           /\ UNCHANGED <<toClient, cclosed, loop, up, serverVars>>
  BY <1>1, CallsKeep, ReturnsKeep
<1>2. CASE Read /\ UNCHANGED <<cclosed, loop, up, serverVars>>
  BY <1>2, ReadKeeps
<1>3. CASE FailAll /\ UNCHANGED <<up, serverVars>>
  BY <1>3, FailAllKeeps
<1>4. CASE Panic
  BY <1>4, GoneKeeps DEF Panic, Inv, TypeOK
<1>5. CASE Close
  BY <1>5, GoneKeeps DEF Close, Inv, TypeOK
<1> QED BY <1>1, <1>2, <1>3, <1>4, <1>5 DEF Client

----------------------------------------------------------------------------
(* The theorems.                                                           *)

LEMMA InitInv ==
    ASSUME Init
    PROVE  Inv
<1>1. /\ calls = <<>> /\ toClient = <<>> /\ Call = {} /\ Frames = {}
  BY DEF Init, Call, Frames
<1>2. TypeOK
  <2>1. calls \in Seq(CallRec) /\ toClient \in Seq(Frame)
    BY <1>1
  <2>2. cterms \in [Grant -> Slot] /\ cobs \in [Grant -> Slot]
    BY DEF Init, Slot
  <2> QED BY <2>1, <2>2 DEF Init, TypeOK
<1>3. StreamsOK /\ EntriesHaveOwners /\ WantedIsKnown /\ GrantedIsCopied
  BY <1>1 DEF StreamsOK, EntriesHaveOwners, WantedIsKnown, GrantedIsCopied
<1>4. EntriesOK
  BY DEF Init, EntriesOK
<1>5. AnswersOK
  BY <1>1 DEF Init, AnswersOK
<1> QED BY <1>2, <1>3, <1>4, <1>5 DEF Inv

LEMMA StutterKeeps ==
    ASSUME Inv, UNCHANGED vars
    PROVE  Inv'
<1>1. /\ UNCHANGED <<calls, toClient, cclosed, loop, up, envs, open, copying, events>>
      /\ UNCHANGED <<cterms, cobs, dead>>
  BY DEF vars, clientVars, handleVars, serverVars
<1>2. Call' = Call /\ Frames' = Frames /\ Slot' = Slot /\ Frame' = Frame
  BY <1>1 DEF Call, Frames, Slot, Frame
<1>3. TypeOK' /\ StreamsOK' /\ EntriesOK' /\ EntriesHaveOwners'
  BY <1>1, <1>2 DEF Inv, TypeOK, StreamsOK, EntriesOK, EntriesHaveOwners
<1>4. /\ \A s \in Call : Wanted(s)' <=> Wanted(s)
      /\ \A n : \A st \in Status : Answered(n, st)' <=> Answered(n, st)
  BY <1>1, <1>2 DEF Wanted, Answered
<1>5. WantedIsKnown' /\ GrantedIsCopied'
  BY <1>1, <1>2, <1>4 DEF Inv, WantedIsKnown, GrantedIsCopied, Status
<1>6. AnswersOK'
  BY <1>1, <1>2, <1>4 DEF Inv, AnswersOK, Status, Ends
<1> QED BY <1>3, <1>5, <1>6 DEF Inv

LEMMA Invariance == Spec => []Inv
<1>1. Init => Inv
  BY InitInv
<1>2. Inv /\ [Next]_vars => Inv'
  BY ClientAssumption, ServerKeeps, ClientStepKeeps, StutterKeeps DEF Next
<1> QED BY <1>1, <1>2, PTL DEF Spec

\* Calls, frames, entries and the daemon's sets stay well typed: what they
\* number are calls that were made.
THEOREM TypesHold == Spec => []TypeOK
<1>1. Inv => TypeOK
  BY DEF Inv
<1> QED BY <1>1, Invariance, PTL

\* What a caller holds and nobody has hung up can still hear of its end,
\* however late the answers to Attach, Watch, Freeze and Revoke are read and
\* whatever expires meanwhile (client.go, hangupTerm, deliverPty, failAll).
THEOREM NobodyReadsForEver == Spec => []NoSilentHandle
<1>1. ASSUME Inv PROVE NoSilentHandle
  <2> SUFFICES ASSUME NEW s \in Call, Held(s, "attach") \/ Held(s, "watch"), s \notin dead
               PROVE  /\ s \in {cterms[calls[s].grant], cobs[calls[s].grant]}
                      /\ up => \/ s \in copying
                               \/ \E k \in 1 .. Len(toClient) :
                                      toClient[k] = [kind |-> "end", of |-> s]
    BY DEF NoSilentHandle
  <2>1. Wanted(s) /\ Answered(s, "ok")
    BY DEF Wanted, Answered, Held, Opening, Closing
  <2>2. s \in {cterms[calls[s].grant], cobs[calls[s].grant]}
    BY <1>1, <2>1 DEF Inv, WantedIsKnown
  <2>3. up => s \in copying \/ [kind |-> "end", of |-> s] \in Frames
    BY <1>1, <2>1 DEF Inv, GrantedIsCopied
  <2> QED BY <2>2, <2>3 DEF Frames
<1> QED BY <1>1, Invariance, PTL

\* What a Close, a Freeze or a Revoke that succeeded was about is not in use
\* on the host, nor is what a refused Attach or Watch asked for, whatever
\* calls were made in between (server.go, detach, unwatch, freeze, revoke).
THEOREM SuccessIsTheEnd == Spec => []SuccessEndsThem
<1>1. ASSUME Inv PROVE SuccessEndsThem
  <2> SUFFICES ASSUME up, NEW n \in Call, NEW s \in open, calls[n].result = "ok"
               PROVE  /\ calls[n].method \in {"detach", "unwatch"} => s # calls[n].stream
                      /\ s < n /\ calls[s].grant = calls[n].grant =>
                            /\ calls[n].method # "revoke"
                            /\ calls[n].method = "freeze" => calls[s].method # "attach"
    BY DEF SuccessEndsThem
  <2>1. Answered(n, "ok")
    BY DEF Answered
  <2>2. /\ calls[n].method \in Closing => calls[n].stream # s
        /\ s < n => ~Ends(n, s)
    BY <1>1, <2>1 DEF Inv, AnswersOK
  <2> QED BY <2>2 DEF Closing, Ends
<1> QED BY <1>1, Invariance, PTL

\* An entry that makes Attach or Watch busy belongs to one that is under way
\* or that its caller has not finished closing (client.go, Attach, Watch).
THEOREM NoStaleEntry == Spec => []EntriesHaveOwners
<1>1. Inv => EntriesHaveOwners
  BY DEF Inv
<1> QED BY <1>1, Invariance, PTL
=============================================================================
