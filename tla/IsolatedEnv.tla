---------------------------- MODULE IsolatedEnv ----------------------------
(***************************************************************************)
(* One environment of the isolated host (src/isolated/env.go and tree.go): *)
(* Freeze, Thaw, revoke and the calls that live lets through, each several *)
(* steps of a goroutine, because environment.mu is released before the     *)
(* agent is called and before the microVM is signalled.  The agent is      *)
(* reached over an ordered link; a paused machine reads nothing from it.   *)
(***************************************************************************)
EXTENDS Naturals, Sequences, FiniteSets

CONSTANTS
    Controller,  \* goroutines that freeze and thaw
    User,        \* goroutines that make tree, Watch and Attach calls
    Revoker,     \* goroutines that revoke the grant
    MaxCalls     \* bound: calls ever made

ASSUME EnvAssumption ==
    /\ MaxCalls \in Nat
    /\ Controller \cap User = {} /\ Revoker \cap (Controller \cup User) = {}

Caller == Controller \cup User \cup Revoker

VARIABLES
    frozen,    \* environment.frozen
    revoked,   \* environment.revoked; client and inst are nil
    vm,        \* the supervisor process: running, paused or dead
    stopped,   \* the agent's own frozen
    up,        \* the link to the agent
    wire,      \* requests on the link: the number of the call, the method
    answered,  \* the calls whose response is in the channel they wait on
    pc,        \* where each caller is
    mine,      \* the number of each caller's call to the agent, or 0
    calls,     \* how many calls were made
    quiet,     \* history: Freeze returned, and no Thaw was called since
    broken,    \* history: a call took effect while quiet
    crossed    \* history: the last Freeze or Thaw began while a call of the
               \* other kind had the lock behind it and its signal before it

vars == <<frozen, revoked, vm, stopped, up, wire, answered, pc, mine, calls,
          quiet, broken, crossed>>

\* The environment once dial succeeded.
Init ==
    /\ frozen = FALSE
    /\ revoked = FALSE
    /\ vm = "running"
    /\ stopped = FALSE
    /\ up = TRUE
    /\ wire = <<>>
    /\ answered = {}
    /\ pc = [c \in Caller |-> "idle"]
    /\ mine = [c \in Caller |-> 0]
    /\ calls = 0
    /\ quiet = FALSE
    /\ broken = FALSE
    /\ crossed = FALSE

----------------------------------------------------------------------------
(* Faults: what the code would do without one of its precautions.          *)

StillRunning == vm
StillPaused == vm
KilledUnlessPaused == IF vm = "paused" THEN vm ELSE "dead"

----------------------------------------------------------------------------
\* processInstance.Pause, Resume and Stop
Paused == IF vm = "running" THEN "paused" ELSE vm
Resumed == IF vm = "paused" THEN "running" ELSE vm
Stopped == "dead"

\* Client.pending: the calls that wait, all of which Hangup and failAll answer.
Waiting == {c \in Caller : pc[c] \in {"frozenwait", "thawwait", "usewait"}}
EveryCall == {mine[c] : c \in Waiting}

\* A Freeze that has yet to pause the machine, a Thaw that has yet to resume
\* it: both are out of the lock by then.
ToPause(c) == pc[c] \in {"freeze", "frozenwait", "pause"}
ToResume(c) == pc[c] = "resume"

GoTo(c, label) == pc' = [pc EXCEPT ![c] = label]

Begin(c, label) ==
    /\ pc[c] = "idle"
    /\ calls < MaxCalls
    /\ calls' = calls + 1
    /\ mine' = [mine EXCEPT ![c] = calls + 1]
    /\ GoTo(c, label)

\* agent.Client.call: the request is sent and waited for; a link that is
\* down refuses it.
Call(c, method, sending, waiting, after) ==
    /\ pc[c] = sending
    /\ \/ /\ up
          /\ wire' = Append(wire, <<mine[c], method>>)
          /\ GoTo(c, waiting)
          /\ UNCHANGED mine
       \/ /\ ~up
          /\ GoTo(c, after)
          /\ mine' = [mine EXCEPT ![c] = 0]
          /\ UNCHANGED wire
    /\ UNCHANGED <<frozen, revoked, vm, stopped, up, answered, calls, quiet,
                   broken, crossed>>

\* The call is over, and forgotten: an answer that is still to come finds
\* nobody.
Leave(c, after) ==
    /\ GoTo(c, after)
    /\ mine' = [mine EXCEPT ![c] = 0]
    /\ answered' = answered \ {mine[c]}
    /\ UNCHANGED <<frozen, revoked, vm, stopped, up, wire, calls, quiet,
                   broken, crossed>>

Answer(c, waiting, after) ==
    /\ pc[c] = waiting
    /\ mine[c] \in answered
    /\ Leave(c, after)

----------------------------------------------------------------------------
(* Freeze.  The agent's answer, an expired context included, is ignored.   *)

Freeze(c) ==
    /\ c \in Controller
    /\ ~revoked
    /\ Begin(c, "freeze")
    /\ frozen' = TRUE
    /\ crossed' = \E d \in Controller : ToResume(d)
    /\ UNCHANGED <<revoked, vm, stopped, up, wire, answered, quiet, broken>>

FreezeExpires(c) ==
    /\ pc[c] = "frozenwait"
    /\ Leave(c, "pause")

FreezeEnds(c) ==
    /\ pc[c] = "pause"
    /\ vm' = Paused
    /\ quiet' = \A d \in Controller : ~ToResume(d)
    /\ GoTo(c, "idle")
    /\ UNCHANGED <<frozen, revoked, stopped, up, wire, answered, mine,
                   calls, broken, crossed>>

(* Thaw.  The machine is resumed before the agent is asked.                *)

Thaw(c) ==
    /\ c \in Controller
    /\ ~revoked
    /\ Begin(c, "resume")
    /\ frozen' = FALSE
    /\ quiet' = FALSE
    /\ crossed' = \E d \in Controller : ToPause(d)
    /\ UNCHANGED <<revoked, vm, stopped, up, wire, answered, broken>>

ThawResumes(c) ==
    /\ pc[c] = "resume"
    /\ vm' = Resumed
    /\ GoTo(c, "thaw")
    /\ UNCHANGED <<frozen, revoked, stopped, up, wire, answered, mine,
                   calls, quiet, broken, crossed>>

(* ReplaceTree, Apply, Open, Watch and Attach: live, then the agent.       *)

Use(c) ==
    /\ c \in User
    /\ ~revoked /\ ~frozen
    /\ Begin(c, "use")
    /\ UNCHANGED <<frozen, revoked, vm, stopped, up, wire, answered, quiet,
                   broken, crossed>>

\* The context of a Thaw or of one of these calls ends, if it ever does.
CallExpires(c) ==
    /\ pc[c] \in {"thawwait", "usewait"}
    /\ Leave(c, "idle")

(* revoke, of the grant that Host.Revoke took out of its map.              *)

Revoke(c) ==
    /\ c \in Revoker
    /\ ~revoked
    /\ Begin(c, "hangup")
    /\ revoked' = TRUE
    /\ frozen' = FALSE
    /\ UNCHANGED <<vm, stopped, up, wire, answered, quiet, broken, crossed>>

\* client.Hangup answers every call that waits, and Close cuts the link.
RevokeHangsUp(c) ==
    /\ pc[c] = "hangup"
    /\ up' = FALSE
    /\ wire' = <<>>
    /\ answered' = EveryCall
    /\ mine' = [mine EXCEPT ![c] = 0]
    /\ GoTo(c, "stop")
    /\ UNCHANGED <<frozen, revoked, vm, stopped, calls, quiet, broken, crossed>>

RevokeStops(c) ==
    /\ pc[c] = "stop"
    /\ vm' = Stopped
    /\ GoTo(c, "idle")
    /\ UNCHANGED <<frozen, revoked, stopped, up, wire, answered, mine,
                   calls, quiet, broken, crossed>>

----------------------------------------------------------------------------
\* agent.Serve handles one request.  A frozen agent refuses tree calls.
AgentServes ==
    /\ vm = "running" /\ up /\ wire # <<>>
    /\ LET n == Head(wire)[1]
           method == Head(wire)[2]
       IN  /\ stopped' = CASE method = "freeze" -> TRUE
                           [] method = "thaw" -> FALSE
                           [] OTHER -> stopped
           /\ broken' = (broken \/ (method = "use" /\ ~stopped /\ quiet))
           /\ answered' = answered \cup ({n} \cap EveryCall)
    /\ wire' = Tail(wire)
    /\ UNCHANGED <<frozen, revoked, vm, up, pc, mine, calls, quiet, crossed>>

\* The microVM ends by itself: the guest powers off or panics.
MicroVMEnds ==
    /\ vm # "dead"
    /\ vm' = "dead"
    /\ UNCHANGED <<frozen, revoked, stopped, up, wire, answered, pc, mine,
                   calls, quiet, broken, crossed>>

\* The read loop of the client finds the link of a dead machine closed, and
\* failAll answers every call that waits.
LinkLost ==
    /\ vm = "dead" /\ up
    /\ up' = FALSE
    /\ wire' = <<>>
    /\ answered' = EveryCall
    /\ UNCHANGED <<frozen, revoked, vm, stopped, pc, mine, calls, quiet,
                   broken, crossed>>

Step(c) ==
    \/ Call(c, "freeze", "freeze", "frozenwait", "pause")
    \/ Answer(c, "frozenwait", "pause")
    \/ FreezeExpires(c) \/ FreezeEnds(c)
    \/ ThawResumes(c)
    \/ Call(c, "thaw", "thaw", "thawwait", "idle")
    \/ Answer(c, "thawwait", "idle")
    \/ Call(c, "use", "use", "usewait", "idle")
    \/ Answer(c, "usewait", "idle")
    \/ RevokeHangsUp(c) \/ RevokeStops(c)

Next ==
    \/ \E c \in Caller : Freeze(c) \/ Thaw(c) \/ Use(c) \/ Revoke(c)
    \/ \E c \in Caller : Step(c) \/ CallExpires(c)
    \/ AgentServes \/ MicroVMEnds \/ LinkLost

Spec == Init /\ [][Next]_vars

\* Goroutines inside a call go on, contexts of Freeze end at last, the agent
\* of a running machine reads its link, and that of a dead one is closed.
FairSpec ==
    /\ Spec
    /\ \A c \in Caller : WF_vars(Step(c))
    /\ WF_vars(AgentServes) /\ WF_vars(LinkLost)

----------------------------------------------------------------------------
(* Properties.                                                             *)

\* Between the return of a Freeze and the next Thaw no tree call takes
\* effect, not even one that passed live before the Freeze and whose request
\* is still on its way, and not even if the agent did not answer in time.
FrozenIsQuiet == ~broken

\* Once revoke is over the machine is dead, whatever Freeze or Thaw was under
\* way: a signal that comes late neither revives nor spares it.  And when
\* every Freeze and Thaw that began has signalled the machine of an
\* environment that was not revoked, it is paused exactly if the environment
\* says that it is frozen, unless it ended by itself: calls are refused with
\* ErrFrozen and never left waiting for a paused guest.  This is for a last
\* call that did not begin in the middle of one of the other kind (crossed),
\* because the signals of those two are sent without the lock.
MachineFollows ==
    /\ revoked /\ (\A c \in Revoker : pc[c] = "idle") => vm = "dead"
    /\ /\ ~revoked /\ ~crossed /\ vm # "dead"
       /\ \A c \in Controller : ~ToPause(c) /\ ~ToResume(c)
       => (frozen <=> vm = "paused")

\* A Thaw returns, even if its context never ends, unless a Freeze of another
\* goroutine is about to pause the machine meanwhile: it was resumed before
\* the agent was asked, or is revoked.
ThawReturns ==
    \A c \in Controller :
        pc[c] = "resume" ~> pc[c] = "idle" \/ \E d \in Controller : pc[d] = "pause"

----------------------------------------------------------------------------
(* What the code does not guarantee, see README.md.                        *)

\* frozen is what the machine is, also after a Thaw that came between the
\* unlock of a Freeze and its signal.
FrozenMeansPaused ==
    (\A c \in Controller \cup Revoker : pc[c] = "idle") /\ ~revoked /\ vm # "dead" =>
        (frozen <=> vm = "paused")

\* No other goroutine can keep a Thaw without a deadline waiting.
ThawAlwaysReturns == \A c \in Controller : pc[c] = "resume" ~> pc[c] = "idle"
=============================================================================
