------------------------- MODULE EnvironmentProofs -------------------------
(***************************************************************************)
(* The isolated environment, on the host and in the guest.                 *)
(*                                                                         *)
(* On the host: a frozen environment is quiet and a revoked one ends up    *)
(* dead, for any number of goroutines and calls; and its machine follows   *)
(* what it says of itself as long as one goroutine freezes and thaws it.   *)
(*                                                                         *)
(* In the guest: ReplaceTree and Apply either bring Home to what they      *)
(* projected or are undone, for batches of any length that fail anywhere,  *)
(* and the order of mutations that touch different paths does not matter.  *)
(***************************************************************************)
EXTENDS IsolatedEnv, AgentTree, WellFoundedInduction, TLAPS

----------------------------------------------------------------------------
(* Freeze, Thaw and Revoke.                                                *)

\* Where the callers of each kind may be.
ControllerLabel == {"idle", "freeze", "frozenwait", "pause", "resume", "thaw",
                    "thawwait"}
UserLabel == {"idle", "use", "usewait"}
RevokerLabel == {"idle", "hangup", "stop"}
Calling == {"resume", "freeze", "thaw", "use", "frozenwait", "thawwait", "usewait"}

TypeOK ==
    /\ frozen \in BOOLEAN /\ revoked \in BOOLEAN
    /\ stopped \in BOOLEAN /\ up \in BOOLEAN
    /\ quiet \in BOOLEAN /\ broken \in BOOLEAN /\ crossed \in BOOLEAN
    /\ vm \in {"running", "paused", "dead"}
    /\ calls \in Nat
    /\ wire \in Seq((1..calls) \X {"freeze", "thaw", "use"})
    /\ answered \subseteq 1..calls
    /\ pc \in [Caller -> ControllerLabel \cup UserLabel \cup RevokerLabel]
    /\ \A c \in Controller : pc[c] \in ControllerLabel
    /\ \A c \in User : pc[c] \in UserLabel
    /\ \A c \in Revoker : pc[c] \in RevokerLabel
    /\ mine \in [Caller -> 0..calls]
    /\ \A c \in Caller : pc[c] \in Calling => mine[c] # 0

\* While quiet, the machine does not run and no Thaw is about to resume it.
QuietHolds ==
    quiet => vm # "running" /\ \A c \in Controller : pc[c] # "resume"

\* A revocation that began is still going to stop the machine, or did.
Ending == \E c \in Revoker : pc[c] \in {"hangup", "stop"}
RevokedEnds ==
    /\ revoked => vm = "dead" \/ Ending
    /\ ~revoked => ~Ending

Inv == TypeOK /\ QuietHolds /\ ~broken /\ RevokedEnds

----------------------------------------------------------------------------

LEMMA BeginsOK ==
    ASSUME TypeOK, NEW c \in Caller, NEW label, Begin(c, label),
           label # "idle",
           c \in Controller => label \in ControllerLabel,
           c \in User => label \in UserLabel,
           c \in Revoker => label \in RevokerLabel,
           wire' = wire, answered' = answered
    PROVE  /\ calls' = calls + 1
           /\ calls' \in Nat
           /\ wire' \in Seq((1..calls') \X {"freeze", "thaw", "use"})
           /\ answered' \subseteq 1..calls'
           /\ pc' \in [Caller -> ControllerLabel \cup UserLabel \cup RevokerLabel]
           /\ \A d \in Controller : pc'[d] \in ControllerLabel
           /\ \A d \in User : pc'[d] \in UserLabel
           /\ \A d \in Revoker : pc'[d] \in RevokerLabel
           /\ mine' \in [Caller -> 0..calls']
           /\ \A d \in Caller : pc'[d] \in Calling => mine'[d] # 0
<1>1. /\ calls' = calls + 1 /\ calls' \in Nat
      /\ 1..calls \subseteq 1..calls' /\ 0..calls \subseteq 0..calls'
      /\ calls + 1 \in 0..calls' /\ calls + 1 # 0
  BY DEF TypeOK, Begin
<1>2. pc' = [pc EXCEPT ![c] = label] /\ mine' = [mine EXCEPT ![c] = calls + 1]
  BY DEF Begin, GoTo
<1>3. (1..calls) \X {"freeze", "thaw", "use"}
        \subseteq (1..calls') \X {"freeze", "thaw", "use"}
  BY <1>1
<1>4. wire' \in Seq((1..calls') \X {"freeze", "thaw", "use"})
  BY <1>3 DEF TypeOK
<1>5. /\ pc' \in [Caller -> ControllerLabel \cup UserLabel \cup RevokerLabel]
      /\ \A d \in Controller : pc'[d] \in ControllerLabel
      /\ \A d \in User : pc'[d] \in UserLabel
      /\ \A d \in Revoker : pc'[d] \in RevokerLabel
  BY <1>2 DEF TypeOK, Caller
<1>6. /\ mine' \in [Caller -> 0..calls']
      /\ \A d \in Caller : pc'[d] \in Calling => mine'[d] # 0
  BY <1>1, <1>2 DEF TypeOK
<1>7. answered' \subseteq 1..calls'
  BY <1>1 DEF TypeOK
<1> QED BY <1>1, <1>4, <1>5, <1>6, <1>7

\* Freeze, Thaw, Use and Revoke up to their first unlock.
LEMMA BeginKeepsInv ==
    ASSUME Inv, NEW c \in Caller, Freeze(c) \/ Thaw(c) \/ Use(c) \/ Revoke(c)
    PROVE  Inv'
<1>1. CASE Freeze(c)
  <2>1. Begin(c, "freeze") /\ c \notin User /\ c \notin Revoker
    BY <1>1, EnvAssumption DEF Freeze
  <2>2. pc' = [pc EXCEPT ![c] = "freeze"]
    BY <2>1 DEF Begin, GoTo
  <2>3. TypeOK'
    BY <1>1, <2>1, BeginsOK DEF Freeze, Inv, TypeOK, ControllerLabel
  <2>4. QuietHolds' /\ ~broken'
    BY <1>1, <2>2 DEF Freeze, Inv, TypeOK, QuietHolds, Caller
  <2>5. RevokedEnds'
    BY <1>1, <2>1, <2>2 DEF Freeze, Inv, TypeOK, RevokedEnds, Ending, Caller
  <2> QED BY <2>3, <2>4, <2>5 DEF Inv
<1>2. CASE Thaw(c)
  <2>1. Begin(c, "resume") /\ c \notin User /\ c \notin Revoker
    BY <1>2, EnvAssumption DEF Thaw
  <2>2. pc' = [pc EXCEPT ![c] = "resume"]
    BY <2>1 DEF Begin, GoTo
  <2>3. TypeOK'
    BY <1>2, <2>1, BeginsOK DEF Thaw, Inv, TypeOK, ControllerLabel
  <2>4. QuietHolds' /\ ~broken'
    BY <1>2 DEF Thaw, Inv, QuietHolds
  <2>5. RevokedEnds'
    BY <1>2, <2>1, <2>2 DEF Thaw, Inv, TypeOK, RevokedEnds, Ending, Caller
  <2> QED BY <2>3, <2>4, <2>5 DEF Inv
<1>3. CASE Use(c)
  <2>1. Begin(c, "use") /\ c \notin Controller /\ c \notin Revoker
    BY <1>3, EnvAssumption DEF Use
  <2>2. pc' = [pc EXCEPT ![c] = "use"]
    BY <2>1 DEF Begin, GoTo
  <2>3. TypeOK'
    BY <1>3, <2>1, BeginsOK DEF Use, Inv, TypeOK, UserLabel
  <2>4. QuietHolds' /\ ~broken'
    BY <1>3, <2>1, <2>2 DEF Use, Inv, TypeOK, QuietHolds, Caller
  <2>5. RevokedEnds'
    BY <1>3, <2>1, <2>2 DEF Use, Inv, TypeOK, RevokedEnds, Ending, Caller
  <2> QED BY <2>3, <2>4, <2>5 DEF Inv
<1>4. CASE Revoke(c)
  <2>1. Begin(c, "hangup") /\ c \notin Controller /\ c \notin User
    BY <1>4, EnvAssumption DEF Revoke
  <2>2. pc' = [pc EXCEPT ![c] = "hangup"]
    BY <2>1 DEF Begin, GoTo
  <2>3. TypeOK'
    BY <1>4, <2>1, BeginsOK DEF Revoke, Inv, TypeOK, RevokerLabel
  <2>4. QuietHolds' /\ ~broken'
    BY <1>4, <2>1, <2>2 DEF Revoke, Inv, TypeOK, QuietHolds, Caller
  <2>5. RevokedEnds'
    BY <1>4, <2>1, <2>2 DEF Revoke, Inv, TypeOK, RevokedEnds, Ending, Caller
  <2> QED BY <2>3, <2>4, <2>5 DEF Inv
<1> QED BY <1>1, <1>2, <1>3, <1>4

\* A request is sent, or refused because the link is down.
LEMMA CallKeepsInv ==
    ASSUME Inv, NEW c \in Caller,
           NEW method, NEW sending, NEW waiting, NEW after,
           <<method, sending, waiting, after>> \in
               {<<"freeze", "freeze", "frozenwait", "pause">>,
                <<"thaw", "thaw", "thawwait", "idle">>,
                <<"use", "use", "usewait", "idle">>},
           Call(c, method, sending, waiting, after)
    PROVE  Inv'
<1>1. \/ /\ method = "freeze" /\ sending = "freeze"
         /\ waiting = "frozenwait" /\ after = "pause"
      \/ /\ method = "thaw" /\ sending = "thaw"
         /\ waiting = "thawwait" /\ after = "idle"
      \/ /\ method = "use" /\ sending = "use"
         /\ waiting = "usewait" /\ after = "idle"
  OBVIOUS
<1>2. pc[c] = sending /\ mine[c] \in 1..calls
  BY <1>1 DEF Call, Inv, TypeOK, Calling
<1>3. \/ pc' = [pc EXCEPT ![c] = waiting] /\ mine' = mine
      \/ pc' = [pc EXCEPT ![c] = after] /\ mine' = [mine EXCEPT ![c] = 0]
  BY DEF Call, GoTo
<1>4. wire' \in Seq((1..calls) \X {"freeze", "thaw", "use"})
  <2>1. <<mine[c], method>> \in (1..calls) \X {"freeze", "thaw", "use"}
    BY <1>1, <1>2
  <2>2. wire' = wire \/ wire' = Append(wire, <<mine[c], method>>)
    BY DEF Call
  <2>3. wire \in Seq((1..calls) \X {"freeze", "thaw", "use"})
    BY DEF Inv, TypeOK
  <2> DEFINE M == (1..calls) \X {"freeze", "thaw", "use"}
             m == <<mine[c], method>>
  <2> HIDE DEF M, m
  <2>4. m \in M /\ wire \in Seq(M) => Append(wire, m) \in Seq(M)
    OBVIOUS
  <2> QED BY <2>1, <2>2, <2>3, <2>4 DEF M, m
<1>5. /\ pc' \in [Caller -> ControllerLabel \cup UserLabel \cup RevokerLabel]
      /\ \A d \in Controller : pc'[d] \in ControllerLabel
      /\ \A d \in User : pc'[d] \in UserLabel
      /\ \A d \in Revoker : pc'[d] \in RevokerLabel
      /\ \A d \in Caller : d # c => pc'[d] = pc[d]
      /\ \A d \in Controller : pc'[d] = "resume" => pc[d] = "resume"
      /\ \A d \in Revoker : pc'[d] = pc[d]
  BY <1>1, <1>2, <1>3
     DEF Inv, TypeOK, Caller, ControllerLabel, UserLabel, RevokerLabel
<1>6. UNCHANGED <<frozen, revoked, vm, stopped, up, answered, calls, quiet,
                  broken, crossed>>
  BY DEF Call
<1>7. TypeOK'
  <2>1. mine' \in [Caller -> 0..calls]
    BY <1>3 DEF Inv, TypeOK
  <2>2. \A d \in Caller : pc'[d] \in Calling => mine'[d] # 0
    BY <1>1, <1>2, <1>3 DEF Inv, TypeOK, Calling
  <2> QED BY <1>4, <1>5, <1>6, <2>1, <2>2 DEF Inv, TypeOK
<1>8. QuietHolds' /\ ~broken' /\ RevokedEnds'
  BY <1>5, <1>6 DEF Inv, QuietHolds, RevokedEnds, Ending
<1> QED BY <1>7, <1>8 DEF Inv

\* A response arrived, or the context ended.
LEMMA WaitEndsKeepsInv ==
    ASSUME Inv, NEW c \in Caller,
           \/ Answer(c, "frozenwait", "pause") \/ FreezeExpires(c)
           \/ Answer(c, "thawwait", "idle")
           \/ Answer(c, "usewait", "idle") \/ CallExpires(c)
    PROVE  Inv'
<1>1. \/ pc[c] = "frozenwait" /\ pc' = [pc EXCEPT ![c] = "pause"]
      \/ pc[c] \in {"thawwait", "usewait"} /\ pc' = [pc EXCEPT ![c] = "idle"]
  BY DEF Answer, FreezeExpires, CallExpires, Leave, GoTo
<1>2. /\ UNCHANGED <<frozen, revoked, vm, stopped, up, wire, calls, quiet,
                     broken, crossed>>
      /\ mine' = [mine EXCEPT ![c] = 0] /\ answered' = answered \ {mine[c]}
  BY DEF Answer, FreezeExpires, CallExpires, Leave
<1>3. /\ pc' \in [Caller -> ControllerLabel \cup UserLabel \cup RevokerLabel]
      /\ \A d \in Controller : pc'[d] \in ControllerLabel
      /\ \A d \in User : pc'[d] \in UserLabel
      /\ \A d \in Revoker : pc'[d] \in RevokerLabel
      /\ \A d \in Caller : d # c => pc'[d] = pc[d]
      /\ pc'[c] \in {"pause", "idle"}
      /\ \A d \in Controller : pc'[d] = "resume" => pc[d] = "resume"
      /\ \A d \in Revoker : pc'[d] = pc[d]
  BY <1>1 DEF Inv, TypeOK, Caller, ControllerLabel, UserLabel, RevokerLabel
<1>4. TypeOK'
  <2>1. mine' \in [Caller -> 0..calls]
    BY <1>2 DEF Inv, TypeOK
  <2>2. \A d \in Caller : pc'[d] \in Calling => mine'[d] # 0
    <3> SUFFICES ASSUME NEW d \in Caller, pc'[d] \in Calling PROVE mine'[d] # 0
      OBVIOUS
    <3>1. d # c /\ pc[d] \in Calling
      BY <1>3 DEF Calling
    <3> QED BY <1>2, <3>1 DEF Inv, TypeOK
  <2> QED BY <1>2, <1>3, <2>1, <2>2 DEF Inv, TypeOK
<1>5. QuietHolds' /\ ~broken' /\ RevokedEnds'
  BY <1>2, <1>3 DEF Inv, QuietHolds, RevokedEnds, Ending
<1> QED BY <1>4, <1>5 DEF Inv

LEMMA FreezeEndsKeepsInv ==
    ASSUME Inv, NEW c \in Caller, FreezeEnds(c)
    PROVE  Inv'
<1>1. /\ pc[c] = "pause" /\ pc' = [pc EXCEPT ![c] = "idle"]
      /\ c \in Controller
  BY DEF FreezeEnds, GoTo, Inv, TypeOK, Caller, UserLabel, RevokerLabel
<1>2. /\ vm' = Paused
      /\ quiet' = \A d \in Controller : ~ToResume(d)
      /\ UNCHANGED <<frozen, revoked, stopped, up, wire, answered, mine,
                     calls, broken, crossed>>
  BY DEF FreezeEnds
<1>3. /\ pc' \in [Caller -> ControllerLabel \cup UserLabel \cup RevokerLabel]
      /\ \A d \in Controller : pc'[d] \in ControllerLabel
      /\ \A d \in User : pc'[d] \in UserLabel
      /\ \A d \in Revoker : pc'[d] = pc[d]
      /\ \A d \in Caller : d # c => pc'[d] = pc[d]
      /\ \A d \in Controller : d = c \/ pc'[d] = pc[d]
      /\ pc'[c] = "idle"
  BY <1>1, EnvAssumption DEF Inv, TypeOK, Caller, ControllerLabel, UserLabel, RevokerLabel
<1>4. /\ vm' # "running" /\ vm' \in {"running", "paused", "dead"}
      /\ vm = "dead" => vm' = "dead"
  BY <1>2 DEF Paused, Inv, TypeOK
<1>5. quiet' \in BOOLEAN
  BY <1>2
<1>6. TypeOK'
  BY <1>1, <1>2, <1>3, <1>4, <1>5 DEF Inv, TypeOK, Calling
<1>7. QuietHolds'
  <2> SUFFICES ASSUME quiet', NEW d \in Controller PROVE pc'[d] # "resume"
    BY <1>4 DEF QuietHolds
  <2> QED BY <1>2, <1>3 DEF ToResume
<1>8. ~broken' /\ RevokedEnds'
  BY <1>2, <1>3, <1>4 DEF Inv, RevokedEnds, Ending
<1> QED BY <1>6, <1>7, <1>8 DEF Inv

LEMMA ThawResumesKeepsInv ==
    ASSUME Inv, NEW c \in Caller, ThawResumes(c)
    PROVE  Inv'
<1>1. /\ pc[c] = "resume" /\ pc' = [pc EXCEPT ![c] = "thaw"]
      /\ c \in Controller
  BY DEF ThawResumes, GoTo, Inv, TypeOK, Caller, UserLabel, RevokerLabel
<1>2. /\ vm' = Resumed
      /\ UNCHANGED <<frozen, revoked, stopped, up, wire, answered, mine,
                     calls, quiet, broken, crossed>>
  BY DEF ThawResumes
<1>3. /\ pc' \in [Caller -> ControllerLabel \cup UserLabel \cup RevokerLabel]
      /\ \A d \in Controller : pc'[d] \in ControllerLabel
      /\ \A d \in User : pc'[d] \in UserLabel
      /\ \A d \in Revoker : pc'[d] = pc[d]
      /\ \A d \in Caller : d # c => pc'[d] = pc[d]
  BY <1>1, EnvAssumption DEF Inv, TypeOK, Caller, ControllerLabel, UserLabel, RevokerLabel
<1>4. /\ vm' \in {"running", "paused", "dead"} /\ (vm = "dead" => vm' = "dead")
  BY <1>2 DEF Resumed, Inv, TypeOK
<1>5. TypeOK'
  BY <1>1, <1>2, <1>3, <1>4 DEF Inv, TypeOK, Calling
<1>6. QuietHolds' /\ ~broken'
  BY <1>1, <1>2 DEF Inv, QuietHolds
<1>7. RevokedEnds'
  BY <1>2, <1>3, <1>4 DEF Inv, RevokedEnds, Ending
<1> QED BY <1>5, <1>6, <1>7 DEF Inv

\* Hangup and failAll answer calls that were made.
LEMMA EveryCallWasMade == ASSUME Inv PROVE EveryCall \subseteq 1..calls
  BY DEF EveryCall, Waiting, Inv, TypeOK, Calling

LEMMA RevokeStepsKeepInv ==
    ASSUME Inv, NEW c \in Caller, RevokeHangsUp(c) \/ RevokeStops(c)
    PROVE  Inv'
<1>1. /\ c \in Revoker /\ pc[c] \in {"hangup", "stop"}
      /\ pc' = [pc EXCEPT ![c] = IF pc[c] = "hangup" THEN "stop" ELSE "idle"]
  BY DEF RevokeHangsUp, RevokeStops, GoTo, Inv, TypeOK, Caller, UserLabel,
         ControllerLabel
<1>2. revoked
  BY <1>1 DEF Inv, RevokedEnds, Ending
<1>3. /\ pc' \in [Caller -> ControllerLabel \cup UserLabel \cup RevokerLabel]
      /\ \A d \in Controller : pc'[d] = pc[d]
      /\ \A d \in User : pc'[d] = pc[d]
      /\ \A d \in Revoker : pc'[d] \in RevokerLabel
      /\ \A d \in Caller : d # c => pc'[d] = pc[d]
  BY <1>1, EnvAssumption DEF Inv, TypeOK, Caller, ControllerLabel, UserLabel, RevokerLabel
<1>4. CASE RevokeHangsUp(c)
  <2>1. wire' \in Seq((1..calls) \X {"freeze", "thaw", "use"})
    BY <1>4 DEF RevokeHangsUp
  <2>2. TypeOK'
    <3>1. /\ mine' = [mine EXCEPT ![c] = 0] /\ answered' = EveryCall /\ up' = FALSE
          /\ UNCHANGED <<frozen, revoked, vm, stopped, calls, quiet, broken, crossed>>
      BY <1>4 DEF RevokeHangsUp
    <3>2. mine' \in [Caller -> 0..calls]
      BY <3>1 DEF Inv, TypeOK
    <3>3. \A d \in Caller : pc'[d] \in Calling => mine'[d] # 0
      <4> SUFFICES ASSUME NEW d \in Caller, pc'[d] \in Calling PROVE mine'[d] # 0
        OBVIOUS
      <4>1. d # c
        BY <1>1, <1>3 DEF Calling, RevokerLabel
      <4> QED BY <1>3, <3>1, <4>1 DEF Inv, TypeOK
    <3> QED BY <1>3, <2>1, <3>1, <3>2, <3>3, EveryCallWasMade DEF Inv, TypeOK
  <2>3. QuietHolds' /\ ~broken'
    BY <1>3, <1>4 DEF RevokeHangsUp, Inv, QuietHolds
  <2>4. pc'[c] = "stop"
    BY <1>4 DEF RevokeHangsUp, GoTo, Inv, TypeOK
  <2>5. RevokedEnds'
    BY <1>1, <1>2, <1>4, <2>4 DEF RevokeHangsUp, RevokedEnds, Ending
  <2> QED BY <2>2, <2>3, <2>5 DEF Inv
<1>5. CASE RevokeStops(c)
  <2>1. TypeOK'
    BY <1>1, <1>3, <1>5 DEF RevokeStops, Stopped, Inv, TypeOK, Calling
  <2>2. QuietHolds' /\ ~broken' /\ RevokedEnds'
    BY <1>2, <1>3, <1>5 DEF RevokeStops, Stopped, Inv, QuietHolds, RevokedEnds
  <2> QED BY <2>1, <2>2 DEF Inv
<1> QED BY <1>4, <1>5

LEMMA AgentServesKeepsInv == ASSUME Inv, AgentServes PROVE Inv'
<1>1. /\ vm = "running" /\ wire # <<>> /\ wire' = Tail(wire)
      /\ answered' = answered \cup ({Head(wire)[1]} \cap EveryCall)
      /\ broken' = (broken \/ (Head(wire)[2] = "use" /\ ~stopped /\ quiet))
      /\ stopped' \in {TRUE, FALSE, stopped}
      /\ UNCHANGED <<frozen, revoked, vm, up, pc, mine, calls, quiet, crossed>>
  BY DEF AgentServes
<1>2. /\ Head(wire)[1] \in 1..calls
      /\ wire' \in Seq((1..calls) \X {"freeze", "thaw", "use"})
  <2>1. Head(wire) \in (1..calls) \X {"freeze", "thaw", "use"}
    BY <1>1 DEF Inv, TypeOK
  <2> QED BY <1>1, <2>1 DEF Inv, TypeOK
<1>3. ~quiet
  BY <1>1 DEF Inv, QuietHolds
<1>4. ~broken' /\ broken' \in BOOLEAN
  BY <1>1, <1>3 DEF Inv
<1>5. TypeOK'
  BY <1>1, <1>2, <1>4 DEF Inv, TypeOK
<1>6. QuietHolds' /\ RevokedEnds'
  BY <1>1, <1>3 DEF Inv, QuietHolds, RevokedEnds, Ending
<1> QED BY <1>4, <1>5, <1>6 DEF Inv

\* The machine ends by itself, and its link is found closed.
LEMMA MachineEndsKeepsInv == ASSUME Inv, MicroVMEnds \/ LinkLost PROVE Inv'
<1>1. /\ UNCHANGED <<frozen, revoked, stopped, pc, mine, calls, quiet, broken, crossed>>
      /\ vm' \in {vm, "dead"}
      /\ wire' \in {wire, <<>>} /\ answered' \in {answered, EveryCall}
      /\ up' \in {up, FALSE}
  BY DEF MicroVMEnds, LinkLost
<1>2. /\ wire' \in Seq((1..calls) \X {"freeze", "thaw", "use"})
      /\ answered' \subseteq 1..calls
  <2>1. <<>> \in Seq((1..calls) \X {"freeze", "thaw", "use"})
    OBVIOUS
  <2>2. wire \in Seq((1..calls) \X {"freeze", "thaw", "use"})
    BY DEF Inv, TypeOK
  <2>3. answered \subseteq 1..calls
    BY DEF Inv, TypeOK
  <2> QED BY <1>1, <2>1, <2>2, <2>3, EveryCallWasMade
<1>3. TypeOK'
  BY <1>1, <1>2 DEF Inv, TypeOK
<1> QED BY <1>1, <1>3 DEF Inv, QuietHolds, RevokedEnds, Ending

LEMMA NextInv == Inv /\ [Next]_vars => Inv'
<1> SUFFICES ASSUME Inv, [Next]_vars PROVE Inv'
  OBVIOUS
<1>1. CASE UNCHANGED vars
  BY <1>1 DEF Inv, TypeOK, QuietHolds, RevokedEnds, Ending, vars
<1>2. ASSUME NEW c \in Caller, Step(c) \/ CallExpires(c)
      PROVE  Inv'
  <2>1. Call(c, "freeze", "freeze", "frozenwait", "pause") => Inv'
    BY CallKeepsInv
  <2>2. Call(c, "thaw", "thaw", "thawwait", "idle") => Inv'
    BY CallKeepsInv
  <2>3. Call(c, "use", "use", "usewait", "idle") => Inv'
    BY CallKeepsInv
  <2> QED BY <1>2, <2>1, <2>2, <2>3, WaitEndsKeepsInv, FreezeEndsKeepsInv,
             ThawResumesKeepsInv, RevokeStepsKeepInv DEF Step
<1> QED BY <1>1, <1>2, BeginKeepsInv, AgentServesKeepsInv, MachineEndsKeepsInv DEF Next

LEMMA InitInv == Init => Inv
<1> SUFFICES ASSUME Init PROVE Inv
  OBVIOUS
<1>1. /\ wire \in Seq((1..calls) \X {"freeze", "thaw", "use"})
      /\ answered \subseteq 1..calls
  BY DEF Init
<1>2. \A c \in Caller : pc[c] = "idle"
  BY DEF Init
<1>3. /\ pc \in [Caller -> ControllerLabel \cup UserLabel \cup RevokerLabel]
      /\ mine \in [Caller -> 0..calls]
  BY DEF Init, ControllerLabel
<1>4. TypeOK
  <2>1. "idle" \in ControllerLabel /\ "idle" \in UserLabel /\ "idle" \in RevokerLabel
    BY DEF ControllerLabel, UserLabel, RevokerLabel
  <2>2. /\ frozen = FALSE /\ revoked = FALSE /\ stopped = FALSE /\ up = TRUE
        /\ quiet = FALSE /\ broken = FALSE /\ crossed = FALSE
        /\ vm = "running" /\ calls = 0
    BY DEF Init
  <2> QED BY <1>1, <1>2, <1>3, <2>1, <2>2 DEF TypeOK, Caller, Calling
<1> QED BY <1>4 DEF Init, Inv, QuietHolds, RevokedEnds, Ending, Caller

LEMMA SpecInv == Spec => []Inv
BY InitInv, NextInv, PTL DEF Spec

\* The steps of Freeze, Thaw, revoke and the tree calls keep the state well
\* typed, and every caller at a place of its own kind of call.
THEOREM TypesHold == Spec => []TypeOK
<1>1. Inv => TypeOK
  BY DEF Inv
<1> QED BY <1>1, SpecInv, PTL

\* Between the return of a Freeze and the next Thaw no tree call takes
\* effect, whatever was on the link and however many goroutines call.
THEOREM FreezeSilences == Spec => []FrozenIsQuiet
<1>1. Inv => FrozenIsQuiet
  BY DEF Inv, FrozenIsQuiet
<1> QED BY <1>1, SpecInv, PTL

----------------------------------------------------------------------------
(* The machine and what the environment says of it.                        *)

\* Unless the last Freeze or Thaw crossed one of the other kind, whoever has
\* yet to signal the machine does what frozen says, and when nobody has, the
\* machine is what frozen says.
Follows ==
    ~revoked /\ ~crossed =>
        /\ \A c \in Controller : (ToPause(c) => frozen) /\ (ToResume(c) => ~frozen)
        /\ vm # "dead" /\ (\A c \in Controller : ~ToPause(c) /\ ~ToResume(c)) =>
              (frozen <=> vm = "paused")

\* The goroutines other than the controllers leave what Follows speaks of
\* alone, until one of them revokes.
LEMMA OthersLeaveFollows ==
    ASSUME Inv, Follows, NEW c \in Caller, c \notin Controller, ~revoked',
           Use(c) \/ Revoke(c) \/ Step(c) \/ CallExpires(c)
    PROVE  Follows'
<1>1. ~Revoke(c)
  BY DEF Revoke
<1>2. pc[c] \in UserLabel \cup RevokerLabel
  BY DEF Inv, TypeOK, Caller
<1>3. ~RevokeHangsUp(c) /\ ~RevokeStops(c)
  <2>1. RevokeHangsUp(c) \/ RevokeStops(c) => c \in Revoker
    BY DEF RevokeHangsUp, RevokeStops, Inv, TypeOK, UserLabel, Caller
  <2> QED BY <2>1 DEF RevokeHangsUp, RevokeStops, Inv, RevokedEnds, Ending
<1>4. ~FreezeEnds(c) /\ ~FreezeExpires(c) /\ ~ThawResumes(c)
  BY <1>2 DEF FreezeEnds, FreezeExpires, ThawResumes, UserLabel, RevokerLabel
<1>5. CASE Use(c)
  <2>1. pc' = [pc EXCEPT ![c] = "use"] /\ UNCHANGED <<frozen, revoked, vm, crossed>>
    BY <1>5 DEF Use, Begin, GoTo
  <2> QED BY <2>1 DEF Follows, Inv, TypeOK, Caller, ToPause, ToResume
<1>6. CASE Step(c) \/ CallExpires(c)
  <2>1. UNCHANGED <<frozen, revoked, vm, crossed>>
    BY <1>3, <1>4, <1>6 DEF Step, CallExpires, Call, Answer, Leave
  <2>2. \E l : pc' = [pc EXCEPT ![c] = l]
    BY <1>3, <1>4, <1>6 DEF Step, CallExpires, Call, Answer, Leave, GoTo
  <2>3. \A d \in Controller : pc'[d] = pc[d]
    BY <2>2 DEF Inv, TypeOK, Caller
  <2> QED BY <2>1, <2>3 DEF Follows, ToPause, ToResume
<1> QED BY <1>1, <1>5, <1>6

\* A Freeze or a Thaw takes the lock: those that have yet to signal are of
\* its kind, or it crosses one.
LEMMA BeginFollows ==
    ASSUME Inv, NEW c \in Controller, Freeze(c) \/ Thaw(c)
    PROVE  Follows'
<1>1. c \in Caller /\ \A d \in Controller : d \in Caller
  BY DEF Caller
<1>2. CASE Freeze(c)
  <2>1. /\ frozen' = TRUE /\ pc' = [pc EXCEPT ![c] = "freeze"]
        /\ crossed' = \E d \in Controller : ToResume(d)
    BY <1>2 DEF Freeze, Begin, GoTo
  <2>2. pc'[c] = "freeze" /\ \A d \in Controller : d # c => pc'[d] = pc[d]
    BY <1>1, <2>1 DEF Inv, TypeOK
  <2> QED BY <2>1, <2>2 DEF Follows, ToPause, ToResume
<1>3. CASE Thaw(c)
  <2>1. /\ frozen' = FALSE /\ pc' = [pc EXCEPT ![c] = "resume"]
        /\ crossed' = \E d \in Controller : ToPause(d)
    BY <1>3 DEF Thaw, Begin, GoTo
  <2>2. pc'[c] = "resume" /\ \A d \in Controller : d # c => pc'[d] = pc[d]
    BY <1>1, <2>1 DEF Inv, TypeOK
  <2> QED BY <2>1, <2>2 DEF Follows, ToPause, ToResume
<1> QED BY <1>2, <1>3

\* Between the lock and the signal nothing changes for it, and the last
\* signal makes the machine what frozen says.
LEMMA ControllerFollows ==
    ASSUME Inv, Follows, ~revoked', NEW c \in Controller, Step(c) \/ CallExpires(c)
    PROVE  Follows'
<1>1. c \in Caller /\ pc[c] \in ControllerLabel /\ \A d \in Controller : d \in Caller
  BY DEF Caller, Inv, TypeOK
<1>2. ~RevokeHangsUp(c) /\ ~RevokeStops(c)
  BY <1>1 DEF ControllerLabel, RevokeHangsUp, RevokeStops
<1>3. /\ UNCHANGED <<frozen, revoked, crossed>>
      /\ \E l : pc' = [pc EXCEPT ![c] = l]
  BY <1>2 DEF Step, CallExpires, Call, Answer, FreezeExpires, Leave, FreezeEnds,
              ThawResumes, GoTo
<1>4. \A d \in Controller : d # c => pc'[d] = pc[d]
  BY <1>1, <1>3 DEF Inv, TypeOK
<1>5. ~revoked /\ vm \in {"running", "paused", "dead"}
  BY <1>3 DEF Inv, TypeOK
<1>6. CASE FreezeEnds(c)
  <2>1. pc[c] = "pause" /\ pc'[c] = "idle" /\ vm' \in {"paused", "dead"}
    BY <1>1, <1>5, <1>6 DEF FreezeEnds, Paused, GoTo, Inv, TypeOK
  <2> QED BY <1>3, <1>4, <1>5, <2>1 DEF Follows, ToPause, ToResume
<1>7. CASE ThawResumes(c)
  <2>1. pc[c] = "resume" /\ pc'[c] = "thaw" /\ vm' \in {"running", "dead"}
    BY <1>1, <1>5, <1>7 DEF ThawResumes, Resumed, GoTo, Inv, TypeOK
  <2> QED BY <1>3, <1>4, <1>5, <2>1 DEF Follows, ToPause, ToResume
<1>8. CASE ~FreezeEnds(c) /\ ~ThawResumes(c)
  <2>1. vm' = vm
    BY <1>2, <1>8 DEF Step, CallExpires, Call, Answer, FreezeExpires, Leave
  <2>2. \/ /\ pc[c] \in {"freeze", "frozenwait"}
           /\ pc'[c] \in {"frozenwait", "pause"}
        \/ /\ pc[c] \in {"thaw", "thawwait", "use", "usewait"}
           /\ pc'[c] \in {"thawwait", "usewait", "idle"}
    BY <1>1, <1>2, <1>8
       DEF Step, CallExpires, Call, Answer, FreezeExpires, Leave, GoTo, Inv, TypeOK
  <2>3. (ToPause(c)' <=> ToPause(c)) /\ (ToResume(c)' <=> ToResume(c))
    BY <2>2 DEF ToPause, ToResume
  <2>4. \A d \in Controller : (ToPause(d)' <=> ToPause(d)) /\ (ToResume(d)' <=> ToResume(d))
    BY <1>4, <2>3 DEF ToPause, ToResume
  <2> QED BY <1>3, <2>1, <2>4 DEF Follows
<1> QED BY <1>6, <1>7, <1>8

LEMMA FollowsNext ==
    ASSUME Inv, Follows, [Next]_vars
    PROVE  Follows'
<1> SUFFICES ASSUME ~revoked' PROVE Follows'
  BY DEF Follows
<1>1. CASE UNCHANGED vars
  BY <1>1 DEF Follows, vars, ToPause, ToResume
<1>2. CASE AgentServes \/ MicroVMEnds \/ LinkLost
  BY <1>2 DEF AgentServes, MicroVMEnds, LinkLost, Follows, ToPause, ToResume
<1>3. ASSUME NEW c \in Caller,
             \/ Freeze(c) \/ Thaw(c) \/ Use(c) \/ Revoke(c)
             \/ Step(c) \/ CallExpires(c)
      PROVE  Follows'
  <2>1. CASE c \in Controller
    <3>1. ~Use(c) /\ ~Revoke(c)
      BY <2>1, EnvAssumption DEF Use, Revoke
    <3> QED BY <1>3, <2>1, <3>1, BeginFollows, ControllerFollows
  <2>2. CASE c \notin Controller
    BY <1>3, <2>2, OthersLeaveFollows DEF Freeze, Thaw
  <2> QED BY <2>1, <2>2
<1> QED BY <1>1, <1>2, <1>3 DEF Next

\* However many goroutines freeze, thaw and revoke an environment: no late
\* signal revives or spares the machine of one whose revocation is over, and
\* once all of them have signalled it, the machine is paused exactly if the
\* environment says that it is frozen, unless the last of them took the lock
\* between the lock and the signal of one of the other kind.
THEOREM MachineIsAsSaid == Spec => []MachineFollows
<1>1. Init => Follows
  BY DEF Init, Follows, Caller, ToPause, ToResume
<1>2. Inv /\ Follows /\ [Next]_vars => Follows'
  BY FollowsNext
<1>3. Inv /\ Follows => MachineFollows
  BY DEF Inv, RevokedEnds, Ending, Follows, MachineFollows
<1> QED BY <1>1, <1>2, <1>3, SpecInv, PTL DEF Spec

----------------------------------------------------------------------------
(* ReplaceTree and Apply on the agent.                                     *)

NodeRec == [kind : {"file", "dir"}, version : Version \cup {NoVersion},
            data : Nat \cup {NoData}]

\* What Home and the projection are: functions from some of the paths.
Snaps == UNION {[S -> NodeRec] : S \in SUBSET Path}

UndoRec == [op : STRING, path : Path, number : Nat, from : Path, was : SUBSET NodeRec]

TreeTypeOK ==
    /\ projected \in Snaps /\ home \in Snaps /\ next \in Snaps
    /\ before \in Snaps /\ old \in Snaps
    /\ phase \in {"idle", "staging", "clearing", "renaming", "replaced",
                  "applying", "undoing", "applied", "failed"}
    /\ batch \in Seq(MutationRec) /\ arg \in Seq(MutationRec)
    /\ undos \in Seq(UndoRec)
    /\ stashes \subseteq Nat
    /\ over \in BOOLEAN

\* A file is moved aside by a mutation that can still be undone.
StashesHaveUndos ==
    /\ stashes \subseteq 1..Len(undos)
    /\ \A i \in 1..Len(undos) : undos[i].number = i
    /\ phase \notin {"applying", "undoing"} => stashes = {}
    /\ phase \notin {"applying", "undoing", "applied", "failed"} => undos = <<>>

\* Nothing is lost, so nothing was changed: by ReplaceTree, and by an Apply
\* that was undone.
KeptUnlessOver ==
    phase \in {"staging", "clearing", "renaming", "failed"} /\ ~over => home = before

\* ReplaceTree writes what was projected.
RenamedIsProjected ==
    /\ phase = "renaming" => \A p \in DOMAIN home :
           p \in DOMAIN next /\ home[p] = OnDisk(next)[p]
    /\ phase = "replaced" => home = OnDisk(projected)

\* The undos lead back, one after the other, to what was there.
IsTrail(h, us, was, files) ==
    /\ h[0] = was /\ h[Len(us)] = files
    /\ \A k \in 1..Len(us) : Undone(h[k], us[k]) = h[k - 1]

UndosLeadBack ==
    phase \in {"applying", "undoing"} /\ ~over => \E h : IsTrail(h, undos, before, home)

Agree(f, g, p) ==
    /\ p \in DOMAIN f <=> p \in DOMAIN g
    /\ p \in DOMAIN f => f[p] = g[p]
TouchedFirst(muts, n) == UNION {Touched(muts[i]) : i \in 1..n}

\* One of the first n mutations moved r, and p has its body now.
BodyOfMoved(files, was, snap, prior, muts, n, r, p) ==
    /\ \E i \in 1..n : muts[i].op = "move" /\ muts[i].from = r
    /\ r \in DOMAIN was /\ r \in DOMAIN prior
    /\ files[p] = was[r] /\ snap[p] = prior[r]

\* The body of p is the projected one, or was moved there.
BodyIsRight(files, was, snap, prior, muts, n, p) ==
    \/ files[p] = OnDisk(snap)[p]
    \/ \E r \in Path : BodyOfMoved(files, was, snap, prior, muts, n, r, p)

\* The first n mutations are on disk and in the projection, and nothing else
\* changed in either.
FirstAreOnDisk(files, was, muts, n, snap, prior) ==
    /\ TouchedFirst(muts, n) \cap DOMAIN files = TouchedFirst(muts, n) \cap DOMAIN snap
    /\ \A p \in Path \ TouchedFirst(muts, n) : Agree(files, was, p) /\ Agree(snap, prior, p)
    /\ \A p \in TouchedFirst(muts, n) \cap DOMAIN files :
           BodyIsRight(files, was, snap, prior, muts, n, p)

\* The mutations that are on disk already.
Done == Len(arg) - Len(batch)

BatchIsAccepted ==
    phase = "applying" =>
        /\ old = projected
        /\ Apply(projected, arg).ok
        /\ next = Apply(projected, arg).snap
        /\ Len(batch) <= Len(arg)
        /\ \A i \in 1..Len(batch) : batch[i] = arg[Done + i]

AppliedIsOnDisk ==
    /\ phase = "applying" =>
           FirstAreOnDisk(home, before, arg, Done, Steps(projected, arg)[Done].snap, old)
    /\ phase = "applied" => FirstAreOnDisk(home, before, arg, Len(arg), projected, old)

TreeInv ==
    /\ TreeTypeOK
    /\ StashesHaveUndos
    /\ KeptUnlessOver
    /\ RenamedIsProjected
    /\ UndosLeadBack
    /\ BatchIsAccepted
    /\ AppliedIsOnDisk

----------------------------------------------------------------------------
(* Snapshots.                                                              *)

IsMap(f) == f = [p \in DOMAIN f |-> f[p]]

\* A snapshot is given by its domain and its nodes.
LEMMA SnapIs ==
    ASSUME NEW f \in Snaps
    PROVE  /\ IsMap(f)
           /\ DOMAIN f \subseteq Path
           /\ \A p \in DOMAIN f : f[p] \in NodeRec
<1>1. PICK S \in SUBSET Path : f \in [S -> NodeRec]
  BY DEF Snaps
<1> QED
  BY <1>1 DEF IsMap

LEMMA IsSnap ==
    ASSUME NEW f, IsMap(f), DOMAIN f \subseteq Path,
           \A p \in DOMAIN f : f[p] \in NodeRec
    PROVE  f \in Snaps
<1>1. f \in [DOMAIN f -> NodeRec]
  BY DEF IsMap
<1> QED
  BY <1>1 DEF Snaps

\* Two snapshots that agree on every path are the same.
LEMMA SameSnap ==
    ASSUME NEW f \in Snaps, NEW g \in Snaps, \A p \in Path : Agree(f, g, p)
    PROVE  f = g
<1>1. /\ IsMap(f) /\ DOMAIN f \subseteq Path
      /\ IsMap(g) /\ DOMAIN g \subseteq Path
  BY SnapIs
<1>2. DOMAIN f = DOMAIN g
  BY <1>1 DEF Agree
<1>3. \A p \in DOMAIN f : f[p] = g[p]
  BY <1>1 DEF Agree
<1> QED
  BY <1>1, <1>2, <1>3 DEF IsMap

\* What With and Without do at each path.
LEMMA WithIs ==
    ASSUME NEW f, NEW p, NEW node
    PROVE  /\ DOMAIN With(f, p, node) = DOMAIN f \cup {p}
           /\ With(f, p, node)[p] = node
           /\ \A q \in DOMAIN f : q # p => With(f, p, node)[q] = f[q]
           /\ IsMap(With(f, p, node))
  BY DEF With, IsMap

LEMMA WithoutIs ==
    ASSUME NEW f, NEW p
    PROVE  /\ DOMAIN Without(f, p) = DOMAIN f \ {p}
           /\ \A q \in DOMAIN f : q # p => Without(f, p)[q] = f[q]
           /\ IsMap(Without(f, p))
  BY DEF Without, Restrict, IsMap

LEMMA WithSnap ==
    ASSUME NEW f \in Snaps, NEW p \in Path, NEW node \in NodeRec
    PROVE  With(f, p, node) \in Snaps
<1> DEFINE g == With(f, p, node)
<1>1. /\ DOMAIN g = DOMAIN f \cup {p} /\ g[p] = node
      /\ \A q \in DOMAIN f : q # p => g[q] = f[q]
      /\ IsMap(g)
  BY DEF With, IsMap
<1>2. DOMAIN f \subseteq Path /\ \A q \in DOMAIN f : f[q] \in NodeRec
  BY SnapIs
<1> HIDE DEF g
<1>3. DOMAIN g \subseteq Path /\ \A q \in DOMAIN g : g[q] \in NodeRec
  BY <1>1, <1>2
<1>4. g \in Snaps
  BY <1>1, <1>3, IsSnap
<1> QED
  BY <1>4 DEF g

LEMMA WithoutSnap ==
    ASSUME NEW f \in Snaps, NEW p
    PROVE  Without(f, p) \in Snaps
<1> DEFINE g == Without(f, p)
<1>1. /\ DOMAIN g = DOMAIN f \ {p}
      /\ \A q \in DOMAIN f : q # p => g[q] = f[q]
      /\ IsMap(g)
  BY WithoutIs
<1>2. DOMAIN f \subseteq Path /\ \A q \in DOMAIN f : f[q] \in NodeRec
  BY SnapIs
<1> HIDE DEF g
<1>3. DOMAIN g \subseteq Path /\ \A q \in DOMAIN g : g[q] \in NodeRec
  BY <1>1, <1>2
<1>4. g \in Snaps
  BY <1>1, <1>3, IsSnap
<1> QED
  BY <1>4 DEF g

LEMMA EmptySnap == <<>> \in Snaps
<1>1. IsMap(<<>>) /\ DOMAIN <<>> = {}
  BY DEF IsMap
<1> QED
  BY <1>1, IsSnap

LEMMA NodeTypes ==
    /\ Dir \in NodeRec
    /\ \A v \in Version \cup {NoVersion}, d \in Nat \cup {NoData} : File(v, d) \in NodeRec
    /\ \A d \in Nat \cup {NoData} : DiskFile(d) \in NodeRec
  BY DEF NodeRec, Dir, File, DiskFile, NoVersion, NoData

LEMMA OnDiskSnap ==
    ASSUME NEW f \in Snaps
    PROVE  OnDisk(f) \in Snaps /\ DOMAIN OnDisk(f) = DOMAIN f
<1> DEFINE g == OnDisk(f)
<1>1. DOMAIN f \subseteq Path /\ \A q \in DOMAIN f : f[q] \in NodeRec
  BY SnapIs
<1>2. \A q \in DOMAIN f : f[q].data \in Nat \cup {NoData}
  BY <1>1 DEF NodeRec
<1>3. /\ DOMAIN g = DOMAIN f /\ IsMap(g)
      /\ \A q \in DOMAIN g : g[q] \in {Dir, DiskFile(f[q].data)}
  BY DEF OnDisk, IsMap
<1>4. \A q \in DOMAIN g : g[q] \in NodeRec
  BY <1>2, <1>3, NodeTypes
<1> HIDE DEF g
<1>5. g \in Snaps
  BY <1>1, <1>3, <1>4, IsSnap
<1> QED
  BY <1>3, <1>5 DEF g

----------------------------------------------------------------------------
(* The fold of Apply.  Induction over the mutations of a batch is the      *)
(* induction of the natural numbers over a set.                            *)

LEMMA SetInduction ==
    ASSUME NEW S, 0 \in S, \A n \in Nat : n \in S => n + 1 \in S
    PROVE  Nat \subseteq S
<1> DEFINE R == {ss \in Nat \X Nat : ss[1] < ss[2]}
<1>1. IsWellFoundedOn(R, Nat)
  BY NatLessThanWellFounded DEF OpToRel
<1> SUFFICES ASSUME Nat \ S # {} PROVE FALSE
  OBVIOUS
<1>2. \E x \in Nat \ S : \A y \in Nat \ S : ~(<<y, x>> \in R)
  BY <1>1, WFMin
<1>3. PICK x \in Nat \ S : \A y \in Nat \ S : ~(y < x)
  BY <1>2
<1>4. x # 0 /\ x - 1 \in Nat /\ ~(x - 1 \in Nat \ S)
  BY <1>3
<1> QED
  BY <1>4

Start(snap, muts) ==
    [ok |-> Len(muts) <= MaxTreeEntries, snap |-> snap, total |-> 0]

\* f is what the fold carries after each of the first n mutations.
Stepped(f, snap, muts, n) ==
    f = [i \in 0..n |-> IF i = 0 THEN Start(snap, muts) ELSE ApplyOne(f[i - 1], muts[i])]

LEMMA StepsExist ==
    ASSUME NEW snap, NEW muts, NEW N \in Nat
    PROVE  \E f : Stepped(f, snap, muts, N)
<1> DEFINE S == {n \in Nat : \E f : Stepped(f, snap, muts, n)}
<1>1. 0 \in S
  <2> DEFINE f == [n \in 0..0 |-> Start(snap, muts)]
  <2>1. Stepped(f, snap, muts, 0)
    BY DEF Stepped
  <2> QED
    BY <2>1
<1>2. ASSUME NEW n \in Nat, n \in S PROVE n + 1 \in S
  <2>1. PICK f : Stepped(f, snap, muts, n)
    BY <1>2
  <2> DEFINE At(g, i) == IF i = 0 THEN Start(snap, muts) ELSE ApplyOne(g[i - 1], muts[i])
             g == [i \in 0..n+1 |-> IF i = n + 1 THEN ApplyOne(f[n], muts[n+1]) ELSE f[i]]
  <2>2. Stepped(g, snap, muts, n + 1)
    <3>1. \A i \in 0..n : g[i] = f[i]
      OBVIOUS
    <3>2. \A i \in 0..n : f[i] = At(f, i)
      BY <2>1 DEF Stepped
    <3>3. \A i \in 0..n+1 : g[i] = At(g, i)
      <4> SUFFICES ASSUME NEW i \in 0..n+1 PROVE g[i] = At(g, i)
        OBVIOUS
      <4>1. CASE i = n + 1
        BY <4>1, <3>1
      <4>2. CASE i # n + 1
        <5>1. i \in 0..n /\ (i # 0 => i - 1 \in 0..n)
          BY <4>2
        <5> QED
          BY <5>1, <3>1, <3>2
      <4> QED
        BY <4>1, <4>2
    <3> HIDE DEF g
    <3>4. g = [i \in 0..n+1 |-> g[i]]
      BY DEF g
    <3> QED
      BY <3>3, <3>4 DEF Stepped
  <2> QED
    BY <2>2
<1>3. Nat \subseteq S
  BY <1>1, <1>2, SetInduction
<1> QED
  BY <1>3

\* Steps is what it says: the recursive function exists.
LEMMA StepsIs ==
    ASSUME NEW snap, NEW muts \in Seq(MutationRec)
    PROVE  /\ Steps(snap, muts)[0] = Start(snap, muts)
           /\ \A n \in 1..Len(muts) :
                  Steps(snap, muts)[n] = ApplyOne(Steps(snap, muts)[n - 1], muts[n])
<1>0. PICK N \in Nat : N = Len(muts)
  OBVIOUS
<1>1. \E f : Stepped(f, snap, muts, N)
  BY StepsExist
<1>2. Steps(snap, muts) = CHOOSE g : Stepped(g, snap, muts, Len(muts))
  BY DEF Steps, Stepped, Start
<1>3. PICK f : f = Steps(snap, muts)
  OBVIOUS
<1>4. Stepped(f, snap, muts, N)
  BY <1>0, <1>1, <1>2, <1>3
<1>5. \A i \in 0..N : f[i] = IF i = 0 THEN Start(snap, muts) ELSE ApplyOne(f[i - 1], muts[i])
  BY <1>4 DEF Stepped
<1>6. f[0] = Start(snap, muts)
  BY <1>5
<1>7. ASSUME NEW n \in 1..N PROVE f[n] = ApplyOne(f[n - 1], muts[n])
  <2>1. n \in 0..N /\ n # 0
    OBVIOUS
  <2> QED
    BY <1>5, <2>1
<1> QED
  BY <1>0, <1>3, <1>6, <1>7

----------------------------------------------------------------------------
(* One mutation: when it is accepted and what it makes of a snapshot, as   *)
(* far as that does not depend on the bytes that were put before it.       *)

AccRec == [ok : BOOLEAN, snap : Snaps, total : 0..MaxTreeBytes]

BodyFits(m) ==
    \/ m.kind = "dir" /\ m.data = NoData /\ m.version = NoVersion
    \/ m.kind = "file" /\ m.data \in 0..MaxFileBytes

Fits(snap, m) ==
    /\ m.path \in ValidPath
    /\ \/ m.op = "create" /\ m.path \notin DOMAIN snap /\ BodyFits(m)
       \/ /\ m.op = "replace" /\ m.path \in DOMAIN snap /\ BodyFits(m)
          /\ snap[m.path].kind = "file" /\ ~Fenced(snap[m.path], m)
       \/ /\ m.op = "delete" /\ m.path \in DOMAIN snap
          /\ snap[m.path].kind = "file" => ~Fenced(snap[m.path], m)
       \/ /\ m.op = "move" /\ m.path \notin DOMAIN snap
          /\ m.from \in ValidPath /\ m.from \in DOMAIN snap
          /\ snap[m.from].kind = "file" => ~Fenced(snap[m.from], m)

Cost(m) == IF m.op \in {"create", "replace"} /\ m.kind = "file" THEN m.data ELSE 0

NodeOf(m) == IF m.kind = "dir" THEN Dir ELSE File(m.version, m.data)

After(snap, m) ==
    IF m.op \in {"create", "replace"} THEN With(snap, m.path, NodeOf(m))
    ELSE IF m.op = "delete" THEN Without(snap, m.path)
    ELSE With(Without(snap, m.from), m.path, snap[m.from])

LEMMA SetSnap ==
    ASSUME NEW acc \in AccRec, NEW g
    PROVE  [acc EXCEPT !.snap = g] = [ok |-> acc.ok, snap |-> g, total |-> acc.total]
  BY DEF AccRec

LEMMA PutIs ==
    ASSUME NEW acc \in AccRec, acc.ok, NEW m \in MutationRec,
           m.op \in {"create", "replace"}, CanPut(acc, m)
    PROVE  Put(acc, m) = [ok |-> TRUE, snap |-> After(acc.snap, m),
                          total |-> acc.total + Cost(m)]
<1>0. acc = [ok |-> TRUE, snap |-> acc.snap, total |-> acc.total] /\ acc.total \in Nat
  BY DEF AccRec
<1>1. CASE m.kind = "dir"
  <2>1. After(acc.snap, m) = With(acc.snap, m.path, Dir) /\ Cost(m) = 0
    BY <1>1 DEF After, NodeOf, Cost
  <2>2. Put(acc, m) = [acc EXCEPT !.snap = With(acc.snap, m.path, Dir)]
    BY <1>1 DEF Put
  <2>3. acc.total + 0 = acc.total
    BY <1>0
  <2> QED
    BY <2>1, <2>2, <2>3, SetSnap
<1>2. CASE m.kind = "file"
  <2>1. m.kind # "dir" /\ m.data \in Nat
    BY <1>2 DEF CanPut
  <2>2. After(acc.snap, m) = With(acc.snap, m.path, File(m.version, m.data))
        /\ Cost(m) = m.data
    BY <1>2, <2>1 DEF After, NodeOf, Cost
  <2>3. Put(acc, m) = [[acc EXCEPT !.snap = With(acc.snap, m.path, File(m.version, m.data))]
                          EXCEPT !.total = acc.total + m.data]
    BY <1>0, <2>1 DEF Put
  <2> QED
    BY <1>0, <2>2, <2>3
<1> QED
  BY <1>1, <1>2 DEF MutationRec

LEMMA CanPutIs ==
    ASSUME NEW acc \in AccRec, NEW m \in MutationRec, m.op \in {"create", "replace"}
    PROVE  CanPut(acc, m) <=> BodyFits(m) /\ acc.total + Cost(m) <= MaxTreeBytes
<1>1. MaxTreeBytes \in Nat /\ MaxFileBytes \in Nat
  BY TreeAssumption
<1>2. acc.total \in 0..MaxTreeBytes
  BY DEF AccRec
<1> QED
  BY <1>1, <1>2 DEF CanPut, BodyFits, Cost, MutationRec

Refused(acc) == [acc EXCEPT !.ok = FALSE]

\* Mutate, said with Fits, Cost and After.
LEMMA MutateIs ==
    ASSUME NEW acc \in AccRec, acc.ok, NEW m \in MutationRec
    PROVE  IF Fits(acc.snap, m) /\ acc.total + Cost(m) <= MaxTreeBytes
           THEN Mutate(acc, m) = [ok |-> TRUE, snap |-> After(acc.snap, m),
                                  total |-> acc.total + Cost(m)]
           ELSE Mutate(acc, m) = Refused(acc)
<1>0. acc = [ok |-> TRUE, snap |-> acc.snap, total |-> acc.total]
      /\ acc.total \in 0..MaxTreeBytes
  BY DEF AccRec
<1>1. CASE m.path \notin ValidPath
  BY <1>1 DEF Mutate, Fits, Refused
<1>2. CASE m.path \in ValidPath /\ m.op = "create"
  <2>1. Mutate(acc, m) = IF CanCreate(acc, m) THEN Put(acc, m) ELSE Refused(acc)
    BY <1>2 DEF Mutate, Refused
  <2>2. CanCreate(acc, m) <=> m.path \notin DOMAIN acc.snap /\ CanPut(acc, m)
    BY DEF CanCreate
  <2>3. Fits(acc.snap, m) <=> m.path \notin DOMAIN acc.snap /\ BodyFits(m)
    BY <1>2 DEF Fits
  <2> QED
    BY <1>2, <2>1, <2>2, <2>3, CanPutIs, PutIs
<1>3. CASE m.path \in ValidPath /\ m.op = "replace"
  <2>1. Mutate(acc, m) = IF CanReplaceFile(acc, m) THEN Put(acc, m) ELSE Refused(acc)
    BY <1>3 DEF Mutate, Refused
  <2> DEFINE A == /\ m.path \in DOMAIN acc.snap /\ acc.snap[m.path].kind = "file"
                  /\ ~Fenced(acc.snap[m.path], m)
  <2>2. CanReplaceFile(acc, m) <=> A /\ CanPut(acc, m)
    BY DEF CanReplaceFile
  <2>3. Fits(acc.snap, m) <=> A /\ BodyFits(m)
    BY <1>3 DEF Fits
  <2> HIDE DEF A
  <2> QED
    BY <1>3, <2>1, <2>2, <2>3, CanPutIs, PutIs
<1>4. CASE m.path \in ValidPath /\ m.op = "delete"
  <2>1. Mutate(acc, m) = IF CanDelete(acc, m)
                         THEN [acc EXCEPT !.snap = Without(acc.snap, m.path)] ELSE Refused(acc)
    BY <1>0, <1>4 DEF Mutate, Refused
  <2>2. CanDelete(acc, m) <=> Fits(acc.snap, m)
    BY <1>4 DEF CanDelete, Fits
  <2>3. Cost(m) = 0 /\ After(acc.snap, m) = Without(acc.snap, m.path)
    BY <1>4 DEF Cost, After
  <2>4. acc.total + 0 = acc.total /\ acc.total <= MaxTreeBytes
    BY <1>0, TreeAssumption
  <2>5. [acc EXCEPT !.snap = Without(acc.snap, m.path)]
           = [ok |-> TRUE, snap |-> Without(acc.snap, m.path), total |-> acc.total]
    BY SetSnap
  <2> QED
    BY <2>1, <2>2, <2>3, <2>4, <2>5
<1>5. CASE m.path \in ValidPath /\ m.op = "move"
  <2> DEFINE g == With(Without(acc.snap, m.from), m.path, acc.snap[m.from])
  <2>1. Mutate(acc, m) = IF CanMove(acc, m) THEN [acc EXCEPT !.snap = g] ELSE Refused(acc)
    BY <1>0, <1>5 DEF Mutate, Refused
  <2>2. CanMove(acc, m) <=> Fits(acc.snap, m)
    BY <1>5 DEF CanMove, Fits
  <2>3. Cost(m) = 0 /\ After(acc.snap, m) = g
    BY <1>5 DEF Cost, After
  <2>4. acc.total + 0 = acc.total /\ acc.total <= MaxTreeBytes
    BY <1>0, TreeAssumption
  <2> HIDE DEF g
  <2>5. [acc EXCEPT !.snap = g] = [ok |-> TRUE, snap |-> g, total |-> acc.total]
    BY SetSnap
  <2> QED
    BY <2>1, <2>2, <2>3, <2>4, <2>5
<1>6. CASE m.path \in ValidPath /\ m.op \notin {"create", "replace", "delete", "move"}
  BY <1>6 DEF Mutate, Fits, Refused
<1> QED
  BY <1>1, <1>2, <1>3, <1>4, <1>5, <1>6

\* The paths that a mutation takes away, and the ones it leaves behind.
Gone(m) == IF m.op = "delete" THEN {m.path} ELSE IF m.op = "move" THEN {m.from} ELSE {}
Added(m) == IF m.op = "delete" THEN {} ELSE {m.path}

LEMMA TouchedIs ==
    ASSUME NEW m
    PROVE  Touched(m) = Gone(m) \cup Added(m)
  BY DEF Touched, Gone, Added

LEMMA MutationTypes ==
    ASSUME NEW m \in MutationRec
    PROVE  /\ m.path \in Path /\ m.from \in Path /\ Touched(m) \subseteq Path
           /\ NodeOf(m) \in NodeRec
           /\ \A f : Written(f, m) \in NodeRec
<1>1. /\ m.path \in Path /\ m.from \in Path /\ m.kind \in {"file", "dir"}
      /\ m.version \in Version \cup {NoVersion} /\ m.data \in Nat \cup {NoData}
  BY DEF MutationRec
<1>2. Touched(m) \subseteq Path
  BY <1>1 DEF Touched
<1>3. NodeOf(m) \in NodeRec
  BY <1>1, NodeTypes DEF NodeOf
<1> QED
  BY <1>1, <1>2, <1>3, NodeTypes DEF Written

LEMMA FitsIs ==
    ASSUME NEW s, NEW m, Fits(s, m)
    PROVE  /\ m.op \in {"create", "replace", "delete", "move"}
           /\ m.op = "move" => /\ m.from \in DOMAIN s /\ m.path \notin DOMAIN s
                               /\ m.from # m.path
           /\ m.op \in {"create", "replace"} => BodyFits(m)
  BY DEF Fits

\* Elsewhere nothing changed.
AgreeOff(g, f, T) == \A q \in Path \ T : Agree(g, f, q)

\* What With after Without does: a move.
LEMMA MovedIs ==
    ASSUME NEW f \in Snaps, NEW p \in Path, NEW r \in DOMAIN f,
           NEW g, g = With(Without(f, r), p, f[r])
    PROVE  /\ g \in Snaps
           /\ DOMAIN g = (DOMAIN f \ {r}) \cup {p}
           /\ AgreeOff(g, f, {p, r})
           /\ g[p] = f[r]
<1> DEFINE h == Without(f, r)
<1>1. h \in Snaps /\ DOMAIN h = DOMAIN f \ {r}
  BY WithoutSnap, WithoutIs
<1>2. \A q \in DOMAIN f : q # r => h[q] = f[q]
  BY WithoutIs
<1>3. f[r] \in NodeRec
  BY SnapIs
<1> HIDE DEF h
<1>4. g \in Snaps
  BY <1>1, <1>3, WithSnap DEF h
<1>5. /\ DOMAIN g = DOMAIN h \cup {p} /\ g[p] = f[r]
      /\ \A q \in DOMAIN h : q # p => g[q] = h[q]
  BY DEF With, h
<1>6. DOMAIN g = (DOMAIN f \ {r}) \cup {p}
  BY <1>1, <1>5
<1>7. AgreeOff(g, f, {p, r})
  BY <1>1, <1>2, <1>5, <1>6 DEF Agree, AgreeOff
<1> QED
  BY <1>4, <1>5, <1>6, <1>7

LEMMA PuttedIs ==
    ASSUME NEW f \in Snaps, NEW p \in Path, NEW node \in NodeRec,
           NEW g, g = With(f, p, node)
    PROVE  /\ g \in Snaps
           /\ DOMAIN g = DOMAIN f \cup {p}
           /\ AgreeOff(g, f, {p})
           /\ g[p] = node
<1>1. g \in Snaps
  BY WithSnap
<1>2. /\ DOMAIN g = DOMAIN f \cup {p} /\ g[p] = node
      /\ \A q \in DOMAIN f : q # p => g[q] = f[q]
  BY DEF With
<1>3. AgreeOff(g, f, {p})
  BY <1>2 DEF Agree, AgreeOff
<1> QED
  BY <1>1, <1>2, <1>3

LEMMA DroppedIs ==
    ASSUME NEW f \in Snaps, NEW p, NEW g, g = Without(f, p)
    PROVE  /\ g \in Snaps
           /\ DOMAIN g = DOMAIN f \ {p}
           /\ AgreeOff(g, f, {p})
<1>1. g \in Snaps
  BY WithoutSnap
<1>2. /\ DOMAIN g = DOMAIN f \ {p}
      /\ \A q \in DOMAIN f : q # p => g[q] = f[q]
  BY WithoutIs
<1>3. AgreeOff(g, f, {p})
  BY <1>2 DEF Agree, AgreeOff
<1> QED
  BY <1>1, <1>2, <1>3

\* g is f after the mutation, as far as the paths go.
Changed(g, f, m) ==
    /\ g \in Snaps
    /\ DOMAIN g = (DOMAIN f \ Gone(m)) \cup Added(m)
    /\ AgreeOff(g, f, Touched(m))

LEMMA AfterIs ==
    ASSUME NEW f \in Snaps, NEW m \in MutationRec,
           m.op \in {"create", "replace", "delete", "move"},
           m.op = "move" => m.from \in DOMAIN f
    PROVE  Changed(After(f, m), f, m)
<1>0. PICK g : g = After(f, m)
  OBVIOUS
<1>1. CASE m.op \in {"create", "replace"}
  <2>1. g = With(f, m.path, NodeOf(m)) /\ Gone(m) = {} /\ Added(m) = {m.path}
        /\ Touched(m) = {m.path}
    BY <1>0, <1>1 DEF After, Gone, Added, Touched
  <2>2. PICK p \in Path, node \in NodeRec : p = m.path /\ node = NodeOf(m)
    BY MutationTypes
  <2>3. g \in Snaps /\ DOMAIN g = DOMAIN f \cup {p} /\ AgreeOff(g, f, {p})
    BY <2>1, <2>2, PuttedIs
  <2> QED
    BY <1>0, <2>1, <2>2, <2>3 DEF Changed
<1>2. CASE m.op = "delete"
  <2>1. g = Without(f, m.path) /\ Gone(m) = {m.path} /\ Added(m) = {}
        /\ Touched(m) = {m.path}
    BY <1>0, <1>2 DEF After, Gone, Added, Touched
  <2>2. g \in Snaps /\ DOMAIN g = DOMAIN f \ {m.path} /\ AgreeOff(g, f, {m.path})
    BY <2>1, DroppedIs
  <2> QED
    BY <1>0, <2>1, <2>2 DEF Changed
<1>3. CASE m.op = "move"
  <2>1. g = With(Without(f, m.from), m.path, f[m.from]) /\ Gone(m) = {m.from}
        /\ Added(m) = {m.path} /\ Touched(m) = {m.path, m.from}
    BY <1>0, <1>3 DEF After, Gone, Added, Touched
  <2>2. PICK p \in Path, r \in DOMAIN f : p = m.path /\ r = m.from
    BY <1>3, MutationTypes
  <2>3. /\ g \in Snaps /\ DOMAIN g = (DOMAIN f \ {r}) \cup {p}
        /\ AgreeOff(g, f, {p, r})
    <3>1. g = With(Without(f, r), p, f[r])
      BY <2>1, <2>2
    <3> QED
      BY <3>1, MovedIs, Zenon
  <2> QED
    BY <1>0, <2>1, <2>2, <2>3 DEF Changed
<1> QED
  BY <1>1, <1>2, <1>3

LEMMA EffectIs ==
    ASSUME NEW f \in Snaps, NEW m \in MutationRec,
           m.op \in {"create", "replace", "delete", "move"},
           m.op = "move" => m.from \in DOMAIN f
    PROVE  Changed(Effect(f, m), f, m)
<1>0. PICK g : g = Effect(f, m)
  OBVIOUS
<1>1. CASE m.op \in {"create", "replace"}
  <2>0. PICK node : node = Written(f, m)
    OBVIOUS
  <2>1. g = With(f, m.path, node) /\ Gone(m) = {} /\ Added(m) = {m.path}
        /\ Touched(m) = {m.path}
    BY <1>0, <1>1, <2>0 DEF Effect, Gone, Added, Touched
  <2>3. node \in NodeRec /\ m.path \in Path
    BY <2>0, MutationTypes
  <2>4. PICK p \in Path, n \in NodeRec : p = m.path /\ n = node
    BY <2>3
  <2>5. g = With(f, p, n)
    BY <2>1, <2>4
  <2>2. g \in Snaps /\ DOMAIN g = DOMAIN f \cup {p} /\ AgreeOff(g, f, {p})
    BY <2>5, PuttedIs
  <2> QED
    BY <1>0, <2>1, <2>2, <2>4 DEF Changed
<1>2. CASE m.op = "delete"
  <2>1. g = Without(f, m.path) /\ Gone(m) = {m.path} /\ Added(m) = {}
        /\ Touched(m) = {m.path}
    BY <1>0, <1>2 DEF Effect, Gone, Added, Touched
  <2>2. g \in Snaps /\ DOMAIN g = DOMAIN f \ {m.path} /\ AgreeOff(g, f, {m.path})
    BY <2>1, DroppedIs
  <2> QED
    BY <1>0, <2>1, <2>2 DEF Changed
<1>3. CASE m.op = "move"
  <2>1. g = With(Without(f, m.from), m.path, f[m.from]) /\ Gone(m) = {m.from}
        /\ Added(m) = {m.path} /\ Touched(m) = {m.path, m.from}
    BY <1>0, <1>3 DEF Effect, Gone, Added, Touched
  <2>2. PICK p \in Path, r \in DOMAIN f : p = m.path /\ r = m.from
    BY <1>3, MutationTypes
  <2>3. /\ g \in Snaps /\ DOMAIN g = (DOMAIN f \ {r}) \cup {p}
        /\ AgreeOff(g, f, {p, r})
    <3>1. g = With(Without(f, r), p, f[r])
      BY <2>1, <2>2
    <3> QED
      BY <3>1, MovedIs, Zenon
  <2> QED
    BY <1>0, <2>1, <2>2, <2>3 DEF Changed
<1> QED
  BY <1>1, <1>2, <1>3

----------------------------------------------------------------------------
(* The undo of a mutation leads back to what was there, unless a move      *)
(* replaced a file.                                                        *)

LEMMA UndoType ==
    ASSUME NEW m \in MutationRec, home \in Snaps, undos \in Seq(UndoRec), m.op \in STRING
    PROVE  Undo(m) \in UndoRec
<1>1. m.path \in Path /\ m.from \in Path
  BY MutationTypes
<1>2. Number \in Nat
  BY DEF Number
<1>3. (IF m.path \in DOMAIN home THEN {home[m.path]} ELSE {}) \in SUBSET NodeRec
  BY SnapIs
<1>4. (IF m.op = "move" THEN m.from ELSE m.path) \in Path
  BY <1>1
<1> QED
  BY <1>1, <1>2, <1>3, <1>4 DEF Undo, UndoRec

LEMMA UndoIs ==
    ASSUME NEW m \in MutationRec, home \in Snaps,
           m.op \in {"create", "replace", "delete", "move"},
           m.op = "move" => m.from \in DOMAIN home /\ m.path \notin DOMAIN home
    PROVE  Undone(Effect(home, m), Undo(m)) = home
<1>0. PICK g : g = Effect(home, m)
  OBVIOUS
<1>1. PICK u : u = Undo(m)
  OBVIOUS
<1>2. PICK h : h = Undone(g, u)
  OBVIOUS
<1>3. PICK p \in Path : p = m.path
  BY MutationTypes
<1>4. /\ u.op = m.op /\ u.path = p
      /\ u.was = IF p \in DOMAIN home THEN {home[p]} ELSE {}
      /\ u.from = IF m.op = "move" THEN m.from ELSE m.path
  BY <1>1, <1>3 DEF Undo
<1>8. g \in Snaps
  BY <1>0, EffectIs DEF Changed
<1>5. /\ DOMAIN g = (DOMAIN home \ Gone(m)) \cup Added(m)
      /\ \A q \in Path \ Touched(m) : Agree(g, home, q)
  BY <1>0, EffectIs DEF Changed, AgreeOff
<1>6. CASE m.op # "move"
  <2>1. Touched(m) = {p} /\ DOMAIN g \cup {p} = DOMAIN home \cup {p}
    BY <1>3, <1>5, <1>6 DEF Touched, Gone, Added
  <2>2. CASE p \in DOMAIN home
    <3>1. h = With(g, p, home[p])
      BY <1>2, <1>4, <1>6, <2>2 DEF Undone
    <3>2. home[p] \in NodeRec
      BY <2>2, SnapIs
    <3>6. h[p] = home[p]
      BY <3>1 DEF With
    <3>3. h \in Snaps /\ DOMAIN h = DOMAIN g \cup {p} /\ AgreeOff(h, g, {p})
      <4>1. PICK node \in NodeRec : node = home[p]
        BY <3>2
      <4>2. h = With(g, p, node)
        BY <3>1, <4>1
      <4>3. h \in Snaps
        BY <1>3, <1>8, <4>1, <4>2, PuttedIs
      <4>4. DOMAIN h = DOMAIN g \cup {p}
        BY <4>2 DEF With
      <4>5. AgreeOff(h, g, {p})
        BY <1>3, <1>8, <4>1, <4>2, PuttedIs
      <4> QED
        BY <4>3, <4>4, <4>5
    <3>4. \A q \in Path : Agree(h, home, q)
      BY <1>5, <2>1, <2>2, <3>3, <3>6 DEF Agree, AgreeOff
    <3>5. h = home
      BY <3>3, <3>4, SameSnap
    <3> QED
      BY <1>0, <1>1, <1>2, <3>5
  <2>3. CASE p \notin DOMAIN home
    <3>1. h = Without(g, p)
      BY <1>2, <1>4, <1>6, <2>3 DEF Undone
    <3>3. h \in Snaps /\ DOMAIN h = DOMAIN g \ {p} /\ AgreeOff(h, g, {p})
      BY <1>8, <3>1, DroppedIs
    <3>4. \A q \in Path : Agree(h, home, q)
      BY <1>5, <2>1, <2>3, <3>3 DEF Agree, AgreeOff
    <3>5. h = home
      BY <3>3, <3>4, SameSnap
    <3> QED
      BY <1>0, <1>1, <1>2, <3>5
  <2> QED
    BY <2>2, <2>3
<1>7. CASE m.op = "move"
  <2>1. PICK r \in DOMAIN home : r = m.from
    BY <1>7
  <2>2. /\ p \notin DOMAIN home /\ r # p /\ r \in Path
        /\ Touched(m) = {p, r} /\ DOMAIN g = (DOMAIN home \ {r}) \cup {p}
    BY <1>3, <1>5, <1>7, <2>1, SnapIs DEF Touched, Gone, Added
  <2>3. g = With(Without(home, r), p, home[r])
    BY <1>0, <1>3, <1>7, <2>1 DEF Effect
  <2>4. g[p] = home[r]
    BY <2>3 DEF With
  <2>5. h = With(Without(g, p), r, g[p])
    BY <1>2, <1>4, <1>7, <2>1, <2>2 DEF Undone
  <2>6. PICK x \in DOMAIN g : x = p
    BY <2>2
  <2>7. h = With(Without(g, x), r, g[x])
    BY <2>5, <2>6
  <2>11. h[r] = g[x]
    BY <2>7 DEF With
  <2>8. h \in Snaps /\ DOMAIN h = (DOMAIN g \ {x}) \cup {r} /\ AgreeOff(h, g, {r, x})
    <3>1. h \in Snaps
      BY <1>8, <2>2, <2>6, <2>7, MovedIs, Zenon
    <3>2. DOMAIN h = (DOMAIN g \ {x}) \cup {r}
      BY <2>7 DEF With, Without, Restrict
    <3>3. AgreeOff(h, g, {r, x})
      BY <1>8, <2>2, <2>6, <2>7, MovedIs, Zenon
    <3> QED
      BY <3>1, <3>2, <3>3
  <2>9. \A q \in Path : Agree(h, home, q)
    <3> SUFFICES ASSUME NEW q \in Path PROVE Agree(h, home, q)
      OBVIOUS
    <3>1. CASE q = r
      BY <2>1, <2>4, <2>6, <2>8, <2>11, <3>1 DEF Agree
    <3>2. CASE q = p
      BY <2>2, <2>6, <2>8, <3>2 DEF Agree
    <3>3. CASE q # p /\ q # r
      BY <1>5, <2>2, <2>6, <2>8, <3>3 DEF Agree, AgreeOff
    <3> QED
      BY <3>1, <3>2, <3>3
  <2>10. h = home
    BY <2>8, <2>9, SameSnap
  <2> QED
    BY <1>0, <1>1, <1>2, <2>10
<1> QED
  BY <1>6, <1>7

----------------------------------------------------------------------------
(* The fold carries snapshots, and a batch that is accepted is accepted    *)
(* step by step.                                                           *)

LEMMA AfterType ==
    ASSUME NEW acc \in AccRec, NEW m \in MutationRec, acc.ok,
           Fits(acc.snap, m), acc.total + Cost(m) <= MaxTreeBytes
    PROVE  [ok |-> TRUE, snap |-> After(acc.snap, m), total |-> acc.total + Cost(m)] \in AccRec
<1>1. acc.snap \in Snaps /\ acc.total \in Nat /\ MaxTreeBytes \in Nat /\ MaxFileBytes \in Nat
  BY TreeAssumption DEF AccRec
<1>2. After(acc.snap, m) \in Snaps
  BY <1>1, AfterIs, FitsIs DEF Changed
<1>3. Cost(m) \in Nat
  BY <1>1, FitsIs DEF Cost, BodyFits
<1> QED
  BY <1>1, <1>2, <1>3 DEF AccRec

LEMMA ApplyOneType ==
    ASSUME NEW acc \in AccRec, NEW m \in MutationRec
    PROVE  ApplyOne(acc, m) \in AccRec
<1>1. Refused(acc) \in AccRec
  BY DEF Refused, AccRec
<1>2. CASE ~acc.ok
  BY <1>2 DEF ApplyOne
<1>3. CASE acc.ok
  BY <1>1, <1>3, AfterType, MutateIs DEF ApplyOne
<1> QED
  BY <1>2, <1>3

LEMMA StepsType ==
    ASSUME NEW snap \in Snaps, NEW muts \in Seq(MutationRec)
    PROVE  \A n \in 0..Len(muts) : Steps(snap, muts)[n] \in AccRec
<1>a. PICK N \in Nat : N = Len(muts)
  OBVIOUS
<1>b. PICK f : f = Steps(snap, muts)
  OBVIOUS
<1>0. N = Len(muts) /\ f = Steps(snap, muts)
  BY <1>a, <1>b
<1>1. f[0] = Start(snap, muts) /\ \A n \in 1..N : f[n] = ApplyOne(f[n - 1], muts[n])
  BY <1>0, StepsIs
<1>2. \A n \in 1..N : muts[n] \in MutationRec
  BY <1>0
<1> DEFINE S == {n \in Nat : n <= N => f[n] \in AccRec}
<1>3. 0 \in S
  <2>1. MaxTreeBytes \in Nat /\ MaxTreeEntries \in Nat
    BY TreeAssumption
  <2>2. Start(snap, muts) \in AccRec
    BY <1>0, <2>1 DEF Start, AccRec
  <2> QED
    BY <1>1, <2>2
<1>4. ASSUME NEW n \in Nat, n \in S PROVE n + 1 \in S
  <2> SUFFICES ASSUME n + 1 <= N PROVE f[n + 1] \in AccRec
    OBVIOUS
  <2>1. n + 1 \in 1..N /\ (n + 1) - 1 = n /\ f[n] \in AccRec
    BY <1>4
  <2>2. f[n + 1] = ApplyOne(f[n], muts[n + 1]) /\ muts[n + 1] \in MutationRec
    BY <1>1, <1>2, <2>1
  <2> QED
    BY <2>1, <2>2, ApplyOneType
<1>5. Nat \subseteq S
  BY <1>3, <1>4, SetInduction
<1> QED
  BY <1>0, <1>5

LEMMA AllAccepted ==
    ASSUME NEW snap \in Snaps, NEW muts \in Seq(MutationRec), Apply(snap, muts).ok
    PROVE  \A n \in 0..Len(muts) : Steps(snap, muts)[n].ok
<1>a. PICK N \in Nat : N = Len(muts)
  OBVIOUS
<1>b. PICK f : f = Steps(snap, muts)
  OBVIOUS
<1>0. N = Len(muts) /\ f = Steps(snap, muts)
  BY <1>a, <1>b
<1>1. \A n \in 1..N : f[n] = ApplyOne(f[n - 1], muts[n])
  BY <1>0, StepsIs
<1> DEFINE S == {k \in Nat : k <= N => f[N - k].ok}
<1>2. 0 \in S
  BY <1>0 DEF Apply
<1>3. ASSUME NEW k \in Nat, k \in S PROVE k + 1 \in S
  <2> SUFFICES ASSUME k + 1 <= N PROVE f[N - (k + 1)].ok
    OBVIOUS
  <2>1. PICK n \in 1..N : n = N - k
    OBVIOUS
  <2>2. n - 1 = N - (k + 1) /\ f[n].ok
    BY <1>3, <2>1
  <2> QED
    BY <1>1, <2>2 DEF ApplyOne
<1>4. Nat \subseteq S
  BY <1>2, <1>3, SetInduction
<1>5. ASSUME NEW n \in 0..N PROVE f[n].ok
  <2>1. N - n \in Nat /\ N - n <= N /\ N - (N - n) = n
    OBVIOUS
  <2> QED
    BY <1>4, <2>1
<1> QED
  BY <1>0, <1>5

\* A step of an accepted batch.
LEMMA NextMutation ==
    ASSUME NEW snap \in Snaps, NEW muts \in Seq(MutationRec), Apply(snap, muts).ok,
           NEW n \in Nat, n < Len(muts)
    PROVE  /\ Steps(snap, muts)[n].snap \in Snaps
           /\ Fits(Steps(snap, muts)[n].snap, muts[n + 1])
           /\ Steps(snap, muts)[n + 1].snap = After(Steps(snap, muts)[n].snap, muts[n + 1])
<1>a. PICK N \in Nat : N = Len(muts)
  OBVIOUS
<1>b. PICK f : f = Steps(snap, muts)
  OBVIOUS
<1>0. N = Len(muts) /\ f = Steps(snap, muts)
  BY <1>a, <1>b
<1>1. n \in 0..N /\ n + 1 \in 0..N /\ n + 1 \in 1..N /\ (n + 1) - 1 = n
  BY <1>0
<1>2. f[n] \in AccRec /\ f[n].ok /\ f[n + 1].ok /\ muts[n + 1] \in MutationRec
  BY <1>0, <1>1, StepsType, AllAccepted
<1>3. f[n + 1] = ApplyOne(f[n], muts[n + 1])
  BY <1>0, <1>1, StepsIs
<1>4. f[n + 1] = Mutate(f[n], muts[n + 1])
  BY <1>2, <1>3 DEF ApplyOne
<1>5. PICK a, m : a = f[n] /\ m = muts[n + 1]
  OBVIOUS
<1>6. a \in AccRec /\ a.ok /\ m \in MutationRec /\ Mutate(a, m).ok
  BY <1>2, <1>4, <1>5
<1>7. Refused(a).ok = FALSE
  BY <1>6 DEF Refused, AccRec
<1>8. /\ Fits(a.snap, m) /\ a.snap \in Snaps
      /\ Mutate(a, m).snap = After(a.snap, m)
  BY <1>6, <1>7, MutateIs DEF AccRec
<1> QED
  BY <1>0, <1>4, <1>5, <1>8

----------------------------------------------------------------------------
(* Mutations that touch different paths do not see each other.             *)

AgreeOn(g, f, T) == \A q \in T : Agree(g, f, q)

LEMMA LocalFits ==
    ASSUME NEW s, NEW t, NEW m, AgreeOn(s, t, Touched(m))
    PROVE  Fits(s, m) <=> Fits(t, m)
<1>1. Agree(s, t, m.path) /\ (m.op = "move" => Agree(s, t, m.from))
  BY DEF AgreeOn, Touched
<1>2. (m.path \in DOMAIN s <=> m.path \in DOMAIN t)
      /\ (m.path \in DOMAIN s => s[m.path] = t[m.path])
  BY <1>1 DEF Agree
<1>3. CASE m.op # "move"
  BY <1>2, <1>3 DEF Fits
<1>4. CASE m.op = "move"
  <2>1. (m.from \in DOMAIN s <=> m.from \in DOMAIN t)
        /\ (m.from \in DOMAIN s => s[m.from] = t[m.from])
    BY <1>1, <1>4 DEF Agree
  <2> QED
    BY <1>2, <1>4, <2>1 DEF Fits
<1> QED
  BY <1>3, <1>4

LEMMA LocalAfter ==
    ASSUME NEW s \in Snaps, NEW t \in Snaps, NEW m \in MutationRec, Fits(s, m), Fits(t, m),
           AgreeOn(s, t, Touched(m))
    PROVE  AgreeOn(After(s, m), After(t, m), Touched(m))
<1>0. PICK g, h : g = After(s, m) /\ h = After(t, m)
  OBVIOUS
<1>1. CASE m.op \in {"create", "replace"}
  <2>1. g = With(s, m.path, NodeOf(m)) /\ h = With(t, m.path, NodeOf(m)) /\ Touched(m) = {m.path}
    BY <1>0, <1>1 DEF After, Touched
  <2>2. Agree(g, h, m.path)
    BY <2>1 DEF With, Agree
  <2> QED
    BY <1>0, <2>1, <2>2 DEF AgreeOn
<1>2. CASE m.op = "delete"
  <2>1. g = Without(s, m.path) /\ h = Without(t, m.path) /\ Touched(m) = {m.path}
    BY <1>0, <1>2 DEF After, Touched
  <2>2. Agree(g, h, m.path)
    BY <2>1 DEF Without, Restrict, Agree
  <2> QED
    BY <1>0, <2>1, <2>2 DEF AgreeOn
<1>3. CASE m.op = "move"
  <2>1. PICK p, r : p = m.path /\ r = m.from
    OBVIOUS
  <2>2. /\ g = With(Without(s, r), p, s[r]) /\ h = With(Without(t, r), p, t[r])
        /\ Touched(m) = {p, r}
    BY <1>0, <1>3, <2>1 DEF After, Touched
  <2>3. r \in DOMAIN s /\ s[r] = t[r] /\ p # r
    BY <1>3, <2>1, <2>2, FitsIs DEF AgreeOn, Agree
  <2>4. g[p] = s[r] /\ h[p] = t[r] /\ p \in DOMAIN g /\ p \in DOMAIN h
    BY <2>2 DEF With
  <2>5. r \notin DOMAIN g /\ r \notin DOMAIN h
    BY <2>2, <2>3 DEF With, Without, Restrict
  <2>6. Agree(g, h, p) /\ Agree(g, h, r)
    BY <2>3, <2>4, <2>5 DEF Agree
  <2> QED
    BY <1>0, <2>2, <2>6 DEF AgreeOn
<1> QED
  BY <1>1, <1>2, <1>3, FitsIs

\* A mutation leaves alone what another one touches.
LEMMA AfterElsewhere ==
    ASSUME NEW s \in Snaps, NEW m \in MutationRec, Fits(s, m),
           NEW T \in SUBSET Path, T \cap Touched(m) = {}
    PROVE  /\ After(s, m) \in Snaps
           /\ AgreeOn(After(s, m), s, T) /\ AgreeOn(s, After(s, m), T)
<1>1. After(s, m) \in Snaps /\ AgreeOff(After(s, m), s, Touched(m))
  BY AfterIs, FitsIs DEF Changed
<1>2. PICK g : g = After(s, m)
  OBVIOUS
<1>3. \A q \in T : Agree(g, s, q)
  BY <1>1, <1>2 DEF AgreeOff
<1>4. \A q \in T : Agree(s, g, q)
  BY <1>3 DEF Agree
<1> QED
  BY <1>1, <1>2, <1>3, <1>4 DEF AgreeOn

\* Both are accepted, one after the other.
Both(s, m1, m2) ==
    /\ 2 <= MaxTreeEntries
    /\ Fits(s, m1) /\ Fits(s, m2)
    /\ Cost(m1) + Cost(m2) <= MaxTreeBytes

LEMMA CostType ==
    ASSUME NEW m \in MutationRec, NEW s, Fits(s, m)
    PROVE  Cost(m) \in Nat
<1>1. MaxFileBytes \in Nat
  BY TreeAssumption
<1> QED
  BY <1>1, FitsIs DEF Cost, BodyFits

LEMMA TwoSteps ==
    ASSUME NEW s \in Snaps, NEW m1 \in MutationRec, NEW m2 \in MutationRec
    PROVE  Apply(s, <<m1, m2>>) = ApplyOne(ApplyOne(Start(s, <<m1, m2>>), m1), m2)
<1>0. <<m1, m2>> \in Seq(MutationRec)
  OBVIOUS
<1>1. PICK muts \in Seq(MutationRec) : muts = <<m1, m2>>
  BY <1>0
<1>2. Len(muts) = 2 /\ muts[1] = m1 /\ muts[2] = m2
  BY <1>1
<1>3. PICK f : f = Steps(s, muts)
  OBVIOUS
<1>4. f[0] = Start(s, muts) /\ \A n \in 1..2 : f[n] = ApplyOne(f[n - 1], muts[n])
  BY <1>2, <1>3, StepsIs
<1>5. f[1] = ApplyOne(f[0], muts[1]) /\ f[2] = ApplyOne(f[1], muts[2])
  <2>1. 1 \in 1..2 /\ 2 \in 1..2 /\ 1 - 1 = 0 /\ 2 - 1 = 1
    OBVIOUS
  <2> QED
    BY <1>4, <2>1
<1>6. Apply(s, muts) = f[2]
  BY <1>2, <1>3 DEF Apply
<1> QED
  BY <1>1, <1>2, <1>4, <1>5, <1>6

LEMMA TwoAre ==
    ASSUME NEW s \in Snaps, NEW m1 \in MutationRec, NEW m2 \in MutationRec,
           Touched(m1) \cap Touched(m2) = {}
    PROVE  /\ Apply(s, <<m1, m2>>).ok = Both(s, m1, m2)
           /\ Both(s, m1, m2) => Apply(s, <<m1, m2>>).snap = After(After(s, m1), m2)
<1>0. MaxTreeBytes \in Nat /\ MaxTreeEntries \in Nat
  BY TreeAssumption
<1>1. PICK a0 : a0 = Start(s, <<m1, m2>>)
  OBVIOUS
<1>2. a0 = [ok |-> 2 <= MaxTreeEntries, snap |-> s, total |-> 0]
  BY <1>1 DEF Start
<1>3. a0 \in AccRec /\ (a0.ok <=> 2 <= MaxTreeEntries) /\ a0.snap = s /\ a0.total = 0
  <2>0. 0 \in 0..MaxTreeBytes
    BY <1>0
  <2>1. CASE 2 <= MaxTreeEntries
    <3>1. a0 = [ok |-> TRUE, snap |-> s, total |-> 0]
      BY <1>2, <2>1
    <3> QED
      BY <2>0, <2>1, <3>1 DEF AccRec
  <2>2. CASE ~(2 <= MaxTreeEntries)
    <3>1. a0 = [ok |-> FALSE, snap |-> s, total |-> 0]
      <4>1. (2 <= MaxTreeEntries) = FALSE
        BY <1>0, <2>2
      <4> QED
        BY <1>2, <4>1, Zenon
    <3> QED
      BY <2>0, <2>2, <3>1 DEF AccRec
  <2> QED
    BY <2>1, <2>2
<1>4. PICK a1 : a1 = ApplyOne(a0, m1)
  OBVIOUS
<1>5. PICK a2 : a2 = ApplyOne(a1, m2)
  OBVIOUS
<1>6. a2 = Apply(s, <<m1, m2>>)
  BY <1>1, <1>4, <1>5, TwoSteps
<1>7. a1 \in AccRec /\ a2 \in AccRec
  BY <1>3, <1>4, <1>5, ApplyOneType
<1>8. a2.ok => a1.ok /\ a0.ok
  BY <1>4, <1>5 DEF ApplyOne
<1>9. PICK c1, c2 : c1 = Cost(m1) /\ c2 = Cost(m2)
  OBVIOUS
<1>10. ASSUME a0.ok
       PROVE  /\ a1.ok <=> Fits(s, m1) /\ 0 + c1 <= MaxTreeBytes
              /\ a1.ok => a1 = [ok |-> TRUE, snap |-> After(s, m1), total |-> 0 + c1]
  <2>1. a1 = Mutate(a0, m1)
    BY <1>4, <1>10 DEF ApplyOne
  <2>2. Refused(a0).ok = FALSE
    BY <1>3 DEF Refused, AccRec
  <2> QED
    BY <1>3, <1>9, <1>10, <2>1, <2>2, MutateIs
<1>11. ASSUME a1.ok, a0.ok
       PROVE  /\ a2.ok <=> Fits(s, m2) /\ (0 + c1) + c2 <= MaxTreeBytes
              /\ a2.ok => a2.snap = After(After(s, m1), m2)
  <2>1. a2 = Mutate(a1, m2)
    BY <1>5, <1>11 DEF ApplyOne
  <2>2. Refused(a1).ok = FALSE
    BY <1>7 DEF Refused, AccRec
  <2>3. a1.snap = After(s, m1) /\ a1.total = 0 + c1 /\ Fits(s, m1)
    BY <1>10, <1>11
  <2>4. Touched(m2) \in SUBSET Path
    BY MutationTypes
  <2>5. AgreeOn(a1.snap, s, Touched(m2))
    BY <2>3, <2>4, AfterElsewhere
  <2>6. Fits(a1.snap, m2) <=> Fits(s, m2)
    BY <2>5, LocalFits
  <2>7. IF Fits(a1.snap, m2) /\ a1.total + Cost(m2) <= MaxTreeBytes
        THEN a2 = [ok |-> TRUE, snap |-> After(a1.snap, m2), total |-> a1.total + Cost(m2)]
        ELSE a2 = Refused(a1)
    BY <1>7, <1>11, <2>1, MutateIs
  <2> QED
    BY <1>9, <2>2, <2>3, <2>6, <2>7
<1>12. a2.ok <=> Both(s, m1, m2)
  <2>1. ASSUME a2.ok PROVE Both(s, m1, m2)
    <3>1. Fits(s, m1) /\ Fits(s, m2) /\ (0 + c1) + c2 <= MaxTreeBytes /\ 2 <= MaxTreeEntries
      BY <1>3, <1>8, <1>10, <1>11, <2>1
    <3>2. c1 \in Nat /\ c2 \in Nat
      BY <1>9, <3>1, CostType
    <3>3. c1 + c2 <= MaxTreeBytes
      BY <1>0, <3>1, <3>2
    <3> QED
      BY <1>9, <3>1, <3>3 DEF Both
  <2>2. ASSUME Both(s, m1, m2) PROVE a2.ok
    <3>1. Fits(s, m1) /\ Fits(s, m2) /\ c1 + c2 <= MaxTreeBytes /\ a0.ok
      BY <1>3, <1>9, <2>2 DEF Both
    <3>2. c1 \in Nat /\ c2 \in Nat
      BY <1>9, <3>1, CostType
    <3>3. 0 + c1 <= MaxTreeBytes /\ (0 + c1) + c2 <= MaxTreeBytes
      BY <1>0, <3>1, <3>2
    <3> QED
      BY <1>10, <1>11, <3>1, <3>3
  <2> QED
    BY <2>1, <2>2
<1>13. a2.ok \in BOOLEAN /\ Both(s, m1, m2) \in BOOLEAN
  BY <1>7 DEF AccRec, Both
<1>14. a2.ok => a2.snap = After(After(s, m1), m2)
  BY <1>8, <1>11
<1> QED
  BY <1>6, <1>12, <1>13, <1>14

LEMMA AfterCommutes ==
    ASSUME NEW s \in Snaps, NEW m1 \in MutationRec, NEW m2 \in MutationRec,
           Touched(m1) \cap Touched(m2) = {}, Fits(s, m1), Fits(s, m2)
    PROVE  After(After(s, m1), m2) = After(After(s, m2), m1)
<1>0. PICK T1 \in SUBSET Path, T2 \in SUBSET Path : T1 = Touched(m1) /\ T2 = Touched(m2)
  BY MutationTypes
<1>1. PICK s1, s2 : s1 = After(s, m1) /\ s2 = After(s, m2)
  OBVIOUS
<1>2. s1 \in Snaps /\ AgreeOn(s1, s, T2) /\ AgreeOn(s, s1, T2)
  BY <1>0, <1>1, AfterElsewhere
<1>3. s2 \in Snaps /\ AgreeOn(s2, s, T1) /\ AgreeOn(s, s2, T1)
  BY <1>0, <1>1, AfterElsewhere
<1>4. Fits(s1, m2) /\ Fits(s2, m1)
  BY <1>0, <1>2, <1>3, LocalFits
<1>5. PICK s12, s21 : s12 = After(s1, m2) /\ s21 = After(s2, m1)
  OBVIOUS
<1>6. Changed(s12, s1, m2) /\ Changed(s21, s2, m1) /\ Changed(s1, s, m1) /\ Changed(s2, s, m2)
  BY <1>1, <1>2, <1>3, <1>4, <1>5, AfterIs, FitsIs
<1>7. AgreeOn(s12, s2, T2)
  BY <1>0, <1>1, <1>2, <1>4, <1>5, LocalAfter
<1>8. AgreeOn(s21, s1, T1)
  BY <1>0, <1>1, <1>3, <1>4, <1>5, LocalAfter
<1>9. /\ AgreeOff(s12, s1, T2) /\ AgreeOff(s21, s2, T1)
      /\ AgreeOff(s1, s, T1) /\ AgreeOff(s2, s, T2)
      /\ s12 \in Snaps /\ s21 \in Snaps
  BY <1>0, <1>6 DEF Changed
<1>10. ASSUME NEW q \in Path PROVE Agree(s12, s21, q)
  <2>1. CASE q \in T1
    <3>1. q \notin T2
      BY <1>0, <2>1
    <3>2. Agree(s12, s1, q) /\ Agree(s21, s1, q)
      BY <1>8, <1>9, <2>1, <3>1 DEF AgreeOff, AgreeOn
    <3> QED
      BY <3>2 DEF Agree
  <2>2. CASE q \in T2
    <3>1. q \notin T1
      BY <1>0, <2>2
    <3>2. Agree(s12, s2, q) /\ Agree(s21, s2, q)
      BY <1>7, <1>9, <2>2, <3>1 DEF AgreeOff, AgreeOn
    <3> QED
      BY <3>2 DEF Agree
  <2>3. CASE q \notin T1 /\ q \notin T2
    <3>1. Agree(s12, s1, q) /\ Agree(s1, s, q) /\ Agree(s21, s2, q) /\ Agree(s2, s, q)
      BY <1>9, <2>3 DEF AgreeOff
    <3> QED
      BY <3>1 DEF Agree
  <2> QED
    BY <2>1, <2>2, <2>3
<1>11. s12 = s21
  BY <1>9, <1>10, SameSnap
<1> QED
  BY <1>1, <1>5, <1>11

LEMMA TwoCommute ==
    ASSUME NEW s \in Snaps, NEW m1 \in MutationRec, NEW m2 \in MutationRec,
           Touched(m1) \cap Touched(m2) = {}
    PROVE  LET a == Apply(s, <<m1, m2>>)
               b == Apply(s, <<m2, m1>>)
           IN  a.ok = b.ok /\ (a.ok => a.snap = b.snap)
<1>1. Touched(m2) \cap Touched(m1) = {}
  OBVIOUS
<1>2. PICK a, b : a = Apply(s, <<m1, m2>>) /\ b = Apply(s, <<m2, m1>>)
  OBVIOUS
<1>3. a.ok = Both(s, m1, m2) /\ (Both(s, m1, m2) => a.snap = After(After(s, m1), m2))
  BY <1>2, TwoAre
<1>4. b.ok = Both(s, m2, m1) /\ (Both(s, m2, m1) => b.snap = After(After(s, m2), m1))
  BY <1>1, <1>2, TwoAre
<1>5. Both(s, m1, m2) = Both(s, m2, m1)
  <2>1. ASSUME Fits(s, m1), Fits(s, m2) PROVE Cost(m1) + Cost(m2) = Cost(m2) + Cost(m1)
    <3>1. PICK c1 \in Nat, c2 \in Nat : c1 = Cost(m1) /\ c2 = Cost(m2)
      BY <2>1, CostType
    <3>2. c1 + c2 = c2 + c1
      OBVIOUS
    <3> QED
      BY <3>1, <3>2
  <2> QED
    BY <2>1 DEF Both
<1>6. Both(s, m1, m2) => After(After(s, m1), m2) = After(After(s, m2), m1)
  BY AfterCommutes DEF Both
<1> QED
  BY <1>2, <1>3, <1>4, <1>5, <1>6

----------------------------------------------------------------------------
(* Types.                                                                  *)

LEMMA ReplaceType ==
    ASSUME NEW snap \in Snaps, NEW tree \in Seq(ItemRec), CanReplace(snap, tree)
    PROVE  Replace(snap, tree) \in Snaps
<1>0. PICK g : g = Replace(snap, tree)
  OBVIOUS
<1>1. \A i \in 1..Len(tree) : tree[i] \in ItemRec /\ ItemOK(snap, tree[i])
  BY DEF CanReplace
<1> DEFINE Paths == {tree[i].path : i \in 1..Len(tree)}
           At(p) == CHOOSE item \in ToSet(tree) : item.path = p
           Node(p) == IF At(p).kind = "dir" THEN Dir
                      ELSE File(At(p).version, BodyOf(snap, At(p)))
<1>2. g = [p \in Paths |-> Node(p)]
  BY <1>0 DEF Replace
<1>3. ASSUME NEW p \in Paths PROVE p \in Path /\ Node(p) \in NodeRec
  <2>1. PICK i \in 1..Len(tree) : tree[i].path = p
    OBVIOUS
  <2>2. ToSet(tree) = {tree[j] : j \in 1..Len(tree)}
    BY DEF ToSet
  <2>3. At(p) \in ToSet(tree)
    BY <2>1, <2>2
  <2>4. PICK item : item = At(p)
    OBVIOUS
  <2>5. item \in ItemRec /\ ItemOK(snap, item)
    BY <1>1, <2>2, <2>3, <2>4
  <2>6. p \in Path
    BY <1>1, <2>1 DEF ItemRec
  <2>7. CASE item.kind = "dir"
    BY <2>4, <2>6, <2>7, NodeTypes
  <2>8. CASE item.kind = "file"
    <3>1. HasBody(snap, item) /\ item.version \in Version \cup {NoVersion}
      BY <2>5, <2>8 DEF ItemOK, ItemRec
    <3>2. BodyOf(snap, item) \in Nat \cup {NoData}
      <4>1. CASE item.data # NoData
        BY <2>5, <4>1 DEF BodyOf, ItemRec
      <4>2. CASE item.data = NoData
        <5>1. item.path \in DOMAIN snap
          BY <3>1, <4>2 DEF HasBody
        <5>2. snap[item.path] \in NodeRec
          BY <5>1, SnapIs
        <5> QED
          BY <4>2, <5>2 DEF BodyOf, NodeRec
      <4> QED
        BY <4>1, <4>2
    <3>3. File(item.version, BodyOf(snap, item)) \in NodeRec
      BY <3>1, <3>2, NodeTypes
    <3> QED
      BY <2>4, <2>6, <2>8, <3>3
  <2> QED
    BY <2>5, <2>7, <2>8 DEF ItemRec
<1> HIDE DEF Paths, Node
<1>4. DOMAIN g = Paths /\ IsMap(g) /\ \A p \in DOMAIN g : g[p] = Node(p)
  BY <1>2 DEF IsMap
<1>5. DOMAIN g \subseteq Path /\ \A p \in DOMAIN g : g[p] \in NodeRec
  BY <1>3, <1>4
<1> QED
  BY <1>0, <1>4, <1>5, IsSnap

LEMMA UndoneType ==
    ASSUME NEW f \in Snaps, NEW u \in UndoRec
    PROVE  Undone(f, u) \in Snaps
<1>0. u.path \in Path /\ u.from \in Path /\ u.was \in SUBSET NodeRec
  BY DEF UndoRec
<1>1. CASE u.op = "move" /\ u.path \in DOMAIN f
  <2>1. Undone(f, u) = With(Without(f, u.path), u.from, f[u.path])
    BY <1>1 DEF Undone
  <2>2. Without(f, u.path) \in Snaps /\ f[u.path] \in NodeRec
    BY <1>1, WithoutSnap, SnapIs
  <2> QED
    BY <1>0, <2>1, <2>2, WithSnap
<1>2. CASE u.op = "move" /\ u.path \notin DOMAIN f
  BY <1>2 DEF Undone
<1>3. CASE u.op # "move" /\ u.was = {}
  BY <1>3, WithoutSnap DEF Undone
<1>4. CASE u.op # "move" /\ u.was # {}
  <2>1. PICK b : b = CHOOSE x \in u.was : TRUE
    OBVIOUS
  <2>2. b \in NodeRec
    BY <1>0, <1>4, <2>1
  <2>3. Undone(f, u) = With(f, u.path, b)
    BY <1>4, <2>1 DEF Undone
  <2> QED
    BY <1>0, <2>2, <2>3, WithSnap
<1> QED
  BY <1>1, <1>2, <1>3, <1>4

\* The last undo is taken away.
LEMMA LastTaken ==
    ASSUME NEW T, NEW us \in Seq(T), us # <<>>
    PROVE  /\ RemoveAt(us, Len(us)) \in Seq(T)
           /\ Len(us) \in Nat /\ Len(us) > 0
           /\ Len(RemoveAt(us, Len(us))) = Len(us) - 1
           /\ \A i \in 1..Len(us) - 1 : RemoveAt(us, Len(us))[i] = us[i]
           /\ us[Len(us)] \in T
<1>1. PICK n \in Nat : n = Len(us)
  OBVIOUS
<1>2. n > 0
  BY <1>1
<1>3. SubSeq(us, 1, n - 1) \in Seq(T) /\ Len(SubSeq(us, 1, n - 1)) = n - 1
      /\ \A i \in 1..n - 1 : SubSeq(us, 1, n - 1)[i] = us[i]
  BY <1>1, <1>2
<1>4. SubSeq(us, n + 1, n) = <<>>
  BY <1>1, <1>2
<1>5. RemoveAt(us, n) = SubSeq(us, 1, n - 1)
  BY <1>1, <1>3, <1>4 DEF RemoveAt
<1> QED
  BY <1>1, <1>2, <1>3, <1>5

\* What ApplyDisk works on is a mutation that the projection accepted.
LEMMA MutationAtHand ==
    ASSUME TreeTypeOK, BatchIsAccepted, ApplyDisk
    PROVE  /\ batch # <<>> /\ Head(batch) \in MutationRec
           /\ Done \in Nat /\ Done < Len(arg) /\ Head(batch) = arg[Done + 1]
           /\ Steps(projected, arg)[Done].snap \in Snaps
           /\ Fits(Steps(projected, arg)[Done].snap, Head(batch))
           /\ Steps(projected, arg)[Done + 1].snap
                 = After(Steps(projected, arg)[Done].snap, Head(batch))
           /\ Head(batch).op = "move" => Head(batch).from \in DOMAIN home
<1>1. /\ phase = "applying" /\ batch # <<>>
      /\ batch \in Seq(MutationRec) /\ arg \in Seq(MutationRec) /\ projected \in Snaps
  BY DEF ApplyDisk, Is, TreeTypeOK
<1>2. /\ Apply(projected, arg).ok /\ Len(batch) <= Len(arg)
      /\ \A i \in 1..Len(batch) : batch[i] = arg[Done + i]
  BY <1>1 DEF BatchIsAccepted
<1>3. PICK b \in Nat, a \in Nat, d \in Int : b = Len(batch) /\ a = Len(arg) /\ d = Done
  BY <1>1 DEF Done
<1>4. b > 0 /\ d = a - b /\ b <= a
  BY <1>1, <1>2, <1>3 DEF Done
<1>5. d \in Nat /\ d < a
  BY <1>3, <1>4
<1>6. Head(batch) = batch[1] /\ batch[1] \in MutationRec /\ 1 \in 1..b
  BY <1>1, <1>3, <1>4
<1>7. Head(batch) = arg[d + 1]
  BY <1>2, <1>3, <1>6
<1>8. /\ Steps(projected, arg)[d].snap \in Snaps
      /\ Fits(Steps(projected, arg)[d].snap, arg[d + 1])
      /\ Steps(projected, arg)[d + 1].snap = After(Steps(projected, arg)[d].snap, arg[d + 1])
  BY <1>1, <1>2, <1>3, <1>5, NextMutation
<1>9. Head(batch).op = "move" => Head(batch).from \in DOMAIN home
  BY DEF ApplyDisk, CanRename
<1> QED
  BY <1>1, <1>3, <1>5, <1>6, <1>7, <1>8, <1>9

LEMMA TreeTypesStart ==
    ASSUME TreeInit
    PROVE  TreeTypeOK
<1>1. /\ projected \in Snaps /\ home \in Snaps /\ next \in Snaps
      /\ before \in Snaps /\ old \in Snaps
  BY EmptySnap DEF TreeInit
<1>2. /\ batch \in Seq(MutationRec) /\ arg \in Seq(MutationRec)
      /\ undos \in Seq(UndoRec) /\ stashes \subseteq Nat
  BY DEF TreeInit
<1>3. phase = "idle" /\ over \in BOOLEAN
  BY DEF TreeInit
<1> QED
  BY <1>1, <1>2, <1>3 DEF TreeTypeOK

LEMMA TreeTypesStep ==
    ASSUME TreeTypeOK, BatchIsAccepted, [TreeNext]_treeVars
    PROVE  TreeTypeOK'
<1> USE DEF Is
<1>0. /\ ValidPath \subseteq Path /\ MaxFileBytes \in Nat
      /\ Trees \subseteq Seq(ItemRec) /\ Batches \subseteq Seq(MutationRec)
  BY TreeAssumption, CallAssumption
<1>1. ASSUME NEW p \in ValidPath, NEW node \in {Dir, DiskFile(MaxFileBytes)}, GuestWrites(p, node)
      PROVE  TreeTypeOK'
  <2>1. node \in NodeRec /\ p \in Path
    BY <1>0, NodeTypes
  <2>2. With(home, p, node) \in Snaps
    BY <2>1, WithSnap DEF TreeTypeOK
  <2> QED
    BY <1>1, <2>2 DEF GuestWrites, TreeTypeOK
<1>2. ASSUME NEW p \in ValidPath, GuestRemoves(p) PROVE TreeTypeOK'
  <2>1. Without(home, p) \in Snaps
    BY WithoutSnap DEF TreeTypeOK
  <2> QED
    BY <1>2, <2>1 DEF GuestRemoves, TreeTypeOK
<1>3. ASSUME NEW p \in ValidPath, ClearChild(p) PROVE TreeTypeOK'
  <2>1. Without(home, p) \in Snaps
    BY WithoutSnap DEF TreeTypeOK
  <2> QED
    BY <1>3, <2>1 DEF ClearChild, TreeTypeOK
<1>4. ASSUME NEW p \in ValidPath, RenameChild(p) PROVE TreeTypeOK'
  <2>1. OnDisk(next) \in Snaps /\ DOMAIN OnDisk(next) = DOMAIN next /\ p \in DOMAIN next
    BY <1>4, OnDiskSnap DEF RenameChild, TreeTypeOK
  <2>2. OnDisk(next)[p] \in NodeRec /\ p \in Path
    BY <1>0, <2>1, SnapIs
  <2>3. With(home, p, OnDisk(next)[p]) \in Snaps
    BY <2>2, WithSnap DEF TreeTypeOK
  <2> QED
    BY <1>4, <2>3 DEF RenameChild, TreeTypeOK
<1>5. ASSUME NEW tree \in Trees, ReplaceTree(tree) PROVE TreeTypeOK'
  <2>1. Replace(projected, tree) \in Snaps
    BY <1>0, <1>5, ReplaceType DEF ReplaceTree, TreeTypeOK
  <2> QED
    BY <1>5, <2>1 DEF ReplaceTree, TreeTypeOK
<1>6. CASE WriteStaging
  BY <1>6 DEF WriteStaging, TreeTypeOK
<1>7. CASE StartRenaming
  BY <1>7 DEF StartRenaming, TreeTypeOK
<1>8. CASE ReplaceDone
  BY <1>8 DEF ReplaceDone, TreeTypeOK
<1>9. ASSUME NEW muts \in Batches, ApplyBatch(muts) PROVE TreeTypeOK'
  <2>1. muts \in Seq(MutationRec) /\ projected \in Snaps
    BY <1>0 DEF TreeTypeOK
  <2>2. PICK n \in Nat : n = Len(muts) /\ n \in 0..n
    BY <2>1
  <2>3. Steps(projected, muts)[n] \in AccRec
    BY <2>1, <2>2, StepsType
  <2>4. Apply(projected, muts).snap \in Snaps
    BY <2>2, <2>3 DEF Apply, AccRec
  <2> QED
    BY <1>9, <2>1, <2>4 DEF ApplyBatch, TreeTypeOK
<1>10. CASE ApplyDisk
  <2>1. PICK m : m = Head(batch)
    OBVIOUS
  <2>2. /\ batch # <<>> /\ m \in MutationRec /\ m.op \in {"create", "replace", "delete", "move"}
        /\ m.op = "move" => m.from \in DOMAIN home
    BY <1>10, <2>1, MutationAtHand, FitsIs
  <2>3. home \in Snaps /\ undos \in Seq(UndoRec) /\ batch \in Seq(MutationRec)
        /\ stashes \subseteq Nat
    BY DEF TreeTypeOK
  <2>4. Effect(home, m) \in Snaps
    BY <2>2, <2>3, EffectIs DEF Changed
  <2>5. Undo(m) \in UndoRec /\ Number \in Nat
    <3>1. m.op \in STRING
      BY <2>2 DEF MutationRec
    <3>2. Undo(m) \in UndoRec
      BY <2>2, <2>3, <3>1, UndoType
    <3>3. Number \in Nat
      BY <2>3 DEF Number
    <3> QED
      BY <3>2, <3>3
  <2>6. Tail(batch) \in Seq(MutationRec) /\ Append(undos, Undo(m)) \in Seq(UndoRec)
    BY <2>2, <2>3, <2>5
  <2>7. /\ home' = Effect(home, m) /\ undos' = Append(undos, Undo(m)) /\ batch' = Tail(batch)
        /\ stashes' \in {stashes, stashes \cup {Number}}
        /\ UNCHANGED <<projected, phase, next, arg, before, old>>
    BY <1>10, <2>1 DEF ApplyDisk
  <2>8. over' = (over \/ (m.op = "move" /\ m.path \in DOMAIN home))
    BY <1>10, <2>1 DEF ApplyDisk
  <2>9. over' \in BOOLEAN
    BY <2>8, Zenon
  <2> QED
    BY <2>3, <2>9, <2>4, <2>5, <2>6, <2>7 DEF TreeTypeOK
<1>11. CASE ApplyFails
  BY <1>11 DEF ApplyFails, TreeTypeOK
<1>12. CASE Rollback
  <2>1. /\ undos # <<>> /\ home \in Snaps /\ undos \in Seq(UndoRec)
        /\ home' = Undone(home, undos[Len(undos)])
        /\ undos' = RemoveAt(undos, Len(undos))
    BY <1>12 DEF Rollback, NextUndo, TreeTypeOK
  <2>2. undos' \in Seq(UndoRec) /\ undos[Len(undos)] \in UndoRec
    BY <2>1, LastTaken
  <2>3. home' \in Snaps
    BY <2>1, <2>2, UndoneType
  <2> QED
    BY <1>12, <2>2, <2>3 DEF Rollback, TreeTypeOK
<1>13. CASE RolledBack
  BY <1>13 DEF RolledBack, TreeTypeOK
<1>14. CASE ApplyDone
  BY <1>14 DEF ApplyDone, TreeTypeOK
<1>15. CASE Return
  <2>1. next' \in Snaps /\ before' \in Snaps /\ old' \in Snaps
    BY <1>15, EmptySnap DEF Return
  <2>2. batch' \in Seq(MutationRec) /\ arg' \in Seq(MutationRec) /\ undos' \in Seq(UndoRec)
    BY <1>15 DEF Return
  <2>3. phase' = "idle" /\ over' \in BOOLEAN /\ UNCHANGED <<projected, home, stashes>>
    BY <1>15 DEF Return
  <2> QED
    BY <2>1, <2>2, <2>3 DEF TreeTypeOK
<1>16. CASE UNCHANGED treeVars
  BY <1>16 DEF treeVars, TreeTypeOK
<1>17. CASE \E p \in ValidPath, node \in {Dir, DiskFile(MaxFileBytes)} : GuestWrites(p, node)
  BY <1>1, <1>17
<1>18. CASE \E p \in ValidPath : GuestRemoves(p) \/ ClearChild(p) \/ RenameChild(p)
  BY <1>2, <1>3, <1>4, <1>18
<1>19. CASE \E tree \in Trees : ReplaceTree(tree)
  BY <1>5, <1>19
<1>20. CASE \E muts \in Batches : ApplyBatch(muts)
  BY <1>9, <1>20
<1> QED
  BY <1>6, <1>7, <1>8, <1>10, <1>11, <1>12, <1>13, <1>14, <1>15, <1>16, <1>17, <1>18,
     <1>19, <1>20 DEF TreeNext

----------------------------------------------------------------------------
(* The steps of an Apply, and the others.                                  *)

\* A step of the guest or of ReplaceTree.
OutsideApply ==
    /\ phase \in {"idle", "staging", "clearing", "renaming"}
    /\ phase' \in {"idle", "staging", "clearing", "renaming", "replaced", "failed"}
    /\ UNCHANGED <<batch, undos, stashes, arg>>

ApplySteps ==
    \/ \E muts \in Batches : ApplyBatch(muts)
    \/ ApplyDisk \/ ApplyFails \/ Rollback \/ RolledBack \/ ApplyDone
    \/ Return \/ UNCHANGED treeVars

LEMMA StepKinds ==
    ASSUME [TreeNext]_treeVars
    PROVE  OutsideApply \/ ApplySteps
<1> USE DEF Is
<1>1. ASSUME NEW p, NEW node, GuestWrites(p, node) PROVE OutsideApply
  BY <1>1 DEF GuestWrites, OutsideApply
<1>2. ASSUME NEW p, GuestRemoves(p) \/ ClearChild(p) \/ RenameChild(p) PROVE OutsideApply
  BY <1>2 DEF GuestRemoves, ClearChild, RenameChild, OutsideApply
<1>3. ASSUME NEW tree, ReplaceTree(tree) PROVE OutsideApply
  BY <1>3 DEF ReplaceTree, OutsideApply
<1>4. CASE WriteStaging \/ StartRenaming \/ ReplaceDone
  BY <1>4 DEF WriteStaging, StartRenaming, ReplaceDone, OutsideApply
<1> QED
  BY <1>1, <1>2, <1>3, <1>4, Zenon DEF TreeNext, ApplySteps

LEMMA StashesStep ==
    ASSUME TreeTypeOK, StashesHaveUndos, BatchIsAccepted, [TreeNext]_treeVars
    PROVE  StashesHaveUndos'
<1> USE DEF Is
<1>0. undos \in Seq(UndoRec) /\ stashes \subseteq Nat
  BY DEF TreeTypeOK
<1>1. CASE OutsideApply
  BY <1>1 DEF OutsideApply, StashesHaveUndos
<1>2. ASSUME NEW muts \in Batches, ApplyBatch(muts) PROVE StashesHaveUndos'
  BY <1>2 DEF ApplyBatch, StashesHaveUndos
<1>3. CASE ApplyDisk
  <2>0. PICK m : m = Head(batch)
    OBVIOUS
  <2>1. PICK n \in Nat : n = Len(undos)
    BY <1>0
  <2>2. PICK u : u = Undo(m)
    OBVIOUS
  <2>3. u \in UndoRec /\ u.number = n + 1
    BY <1>0, <1>3, <2>0, <2>1, <2>2, MutationAtHand, UndoType DEF Undo, Number, TreeTypeOK, MutationRec
  <2>4. undos' = Append(undos, u) /\ stashes' \subseteq stashes \cup {n + 1}
        /\ phase = "applying" /\ phase' = "applying"
    BY <1>3, <2>0, <2>1, <2>2 DEF ApplyDisk, Number
  <2>5. Len(undos') = n + 1 /\ (\A i \in 1..n : undos'[i] = undos[i]) /\ undos'[n + 1] = u
    BY <1>0, <2>1, <2>3, <2>4
  <2>6. stashes \subseteq 1..n /\ \A i \in 1..n : undos[i].number = i
    BY <2>1 DEF StashesHaveUndos
  <2>7. stashes' \subseteq 1..n + 1
    BY <2>4, <2>6
  <2>8. ASSUME NEW i \in 1..n + 1 PROVE undos'[i].number = i
    <3>1. CASE i = n + 1
      BY <2>3, <2>5, <3>1
    <3>2. CASE i \in 1..n
      BY <2>5, <2>6, <3>2
    <3> QED
      BY <3>1, <3>2
  <2> QED
    BY <2>4, <2>5, <2>7, <2>8 DEF StashesHaveUndos
<1>4. CASE ApplyFails
  BY <1>4 DEF ApplyFails, StashesHaveUndos
<1>5. CASE Rollback
  <2>1. PICK n \in Nat : n = Len(undos)
    BY <1>0
  <2>2. /\ undos # <<>> /\ undos' = RemoveAt(undos, n)
        /\ stashes' = stashes \ {undos[n].number}
        /\ phase = "undoing" /\ phase' = "undoing"
    BY <1>5, <2>1 DEF Rollback, NextUndo
  <2>3. n > 0 /\ Len(undos') = n - 1 /\ \A i \in 1..n - 1 : undos'[i] = undos[i]
    BY <1>0, <2>1, <2>2, LastTaken
  <2>4. stashes \subseteq 1..n /\ \A i \in 1..n : undos[i].number = i
    BY <2>1 DEF StashesHaveUndos
  <2>5. n \in 1..n /\ undos[n].number = n
    BY <2>3, <2>4
  <2>6. stashes' = stashes \ {n}
    BY <2>2, <2>5
  <2>7. stashes' \subseteq 1..n - 1
    <3>1. ASSUME NEW x \in stashes' PROVE x \in 1..n - 1
      <4>1. x \in 1..n /\ x # n
        BY <2>4, <2>6, <3>1
      <4> QED
        BY <4>1
    <3> QED
      BY <3>1
  <2>8. \A i \in 1..n - 1 : undos'[i].number = i
    BY <2>3, <2>4
  <2> QED
    BY <2>2, <2>3, <2>7, <2>8 DEF StashesHaveUndos
<1>6. CASE RolledBack
  BY <1>6 DEF RolledBack, StashesHaveUndos
<1>7. CASE ApplyDone
  BY <1>7 DEF ApplyDone, StashesHaveUndos
<1>8. CASE Return
  BY <1>8 DEF Return, Ended, StashesHaveUndos
<1>9. CASE UNCHANGED treeVars
  BY <1>9 DEF treeVars, StashesHaveUndos
<1> QED
  BY <1>1, <1>2, <1>3, <1>4, <1>5, <1>6, <1>7, <1>8, <1>9, StepKinds DEF ApplySteps

\* What is written is what is projected, and nothing is lost before that.
LEMMA ReplaceStep ==
    ASSUME TreeTypeOK, KeptUnlessOver, RenamedIsProjected, UndosLeadBack, [TreeNext]_treeVars
    PROVE  KeptUnlessOver' /\ RenamedIsProjected'
<1> USE DEF Is
<1>0. home \in Snaps /\ next \in Snaps
  BY DEF TreeTypeOK
<1>1. ASSUME NEW p, NEW node, GuestWrites(p, node) PROVE KeptUnlessOver' /\ RenamedIsProjected'
  BY <1>1 DEF GuestWrites, KeptUnlessOver, RenamedIsProjected
<1>2. ASSUME NEW p, GuestRemoves(p) PROVE KeptUnlessOver' /\ RenamedIsProjected'
  BY <1>2 DEF GuestRemoves, KeptUnlessOver, RenamedIsProjected
<1>3. ASSUME NEW p, ClearChild(p) PROVE KeptUnlessOver' /\ RenamedIsProjected'
  BY <1>3 DEF ClearChild, KeptUnlessOver, RenamedIsProjected
<1>4. ASSUME NEW p, RenameChild(p) PROVE KeptUnlessOver' /\ RenamedIsProjected'
  <2>1. KeptUnlessOver' /\ phase = "renaming" /\ p \in DOMAIN next \ DOMAIN home
    BY <1>4 DEF RenameChild, KeptUnlessOver
  <2>2. PICK d : d = OnDisk(next)
    OBVIOUS
  <2>3. CASE phase' = "failed"
    BY <2>1, <2>3 DEF RenamedIsProjected
  <2>4. CASE home' = With(home, p, d[p]) /\ phase' = phase
    <3>1. /\ DOMAIN home' = DOMAIN home \cup {p} /\ home'[p] = d[p]
          /\ \A q \in DOMAIN home : q # p => home'[q] = home[q]
      BY <2>4 DEF With
    <3>2. \A q \in DOMAIN home : q \in DOMAIN next /\ home[q] = d[q]
      BY <2>1, <2>2 DEF RenamedIsProjected
    <3>3. \A q \in DOMAIN home' : q \in DOMAIN next /\ home'[q] = d[q]
      BY <2>1, <3>1, <3>2
    <3>4. next' = next /\ phase' = "renaming"
      BY <1>4, <2>1, <2>4 DEF RenameChild
    <3>5. OnDisk(next)' = d
      BY <2>2, <3>4 DEF OnDisk
    <3> QED
      BY <2>1, <3>3, <3>4, <3>5 DEF RenamedIsProjected
  <2> QED
    BY <1>4, <2>1, <2>2, <2>3, <2>4 DEF RenameChild
<1>5. ASSUME NEW tree, ReplaceTree(tree) PROVE KeptUnlessOver' /\ RenamedIsProjected'
  BY <1>5 DEF ReplaceTree, KeptUnlessOver, RenamedIsProjected
<1>6. CASE WriteStaging
  BY <1>6 DEF WriteStaging, KeptUnlessOver, RenamedIsProjected
<1>7. CASE StartRenaming
  BY <1>7 DEF StartRenaming, Cleared, KeptUnlessOver, RenamedIsProjected
<1>8. CASE ReplaceDone
  <2>1. PICK d : d = OnDisk(next)
    OBVIOUS
  <2>2. d \in Snaps /\ DOMAIN d = DOMAIN next
    BY <1>0, <2>1, OnDiskSnap
  <2>3. /\ DOMAIN next \subseteq DOMAIN home
        /\ \A q \in DOMAIN home : q \in DOMAIN next /\ home[q] = d[q]
    BY <1>8, <2>1 DEF ReplaceDone, RenamedIsProjected
  <2>4. \A q \in Path : Agree(home, d, q)
    BY <2>2, <2>3 DEF Agree
  <2>5. home = d
    BY <1>0, <2>2, <2>4, SameSnap
  <2>6. projected' = next /\ home' = home /\ phase' = "replaced"
    BY <1>8 DEF ReplaceDone
  <2>7. OnDisk(projected)' = d
    BY <2>1, <2>6 DEF OnDisk
  <2> QED
    BY <2>5, <2>6, <2>7 DEF KeptUnlessOver, RenamedIsProjected
<1>9. CASE \E muts \in Batches : ApplyBatch(muts)
  BY <1>9 DEF ApplyBatch, KeptUnlessOver, RenamedIsProjected
<1>10. CASE ApplyDisk
  BY <1>10 DEF ApplyDisk, KeptUnlessOver, RenamedIsProjected
<1>11. CASE ApplyFails
  BY <1>11 DEF ApplyFails, KeptUnlessOver, RenamedIsProjected
<1>12. CASE Rollback
  BY <1>12 DEF Rollback, KeptUnlessOver, RenamedIsProjected
<1>13. CASE RolledBack
  <2>1. /\ phase = "undoing" /\ undos = <<>> /\ phase' = "failed"
        /\ UNCHANGED <<home, before, over>>
    BY <1>13 DEF RolledBack
  <2>2. ~over => home = before
    BY <2>1 DEF UndosLeadBack, IsTrail
  <2> QED
    BY <2>1, <2>2 DEF KeptUnlessOver, RenamedIsProjected
<1>14. CASE ApplyDone
  BY <1>14 DEF ApplyDone, KeptUnlessOver, RenamedIsProjected
<1>15. CASE Return
  BY <1>15 DEF Return, KeptUnlessOver, RenamedIsProjected
<1>16. CASE UNCHANGED treeVars
  BY <1>16 DEF treeVars, KeptUnlessOver, RenamedIsProjected, OnDisk
<1>17. CASE \E p \in ValidPath, node \in {Dir, DiskFile(MaxFileBytes)} : GuestWrites(p, node)
  BY <1>1, <1>17
<1>18. CASE \E p \in ValidPath : GuestRemoves(p) \/ ClearChild(p) \/ RenameChild(p)
  BY <1>2, <1>3, <1>4, <1>18
<1>19. CASE \E tree \in Trees : ReplaceTree(tree)
  BY <1>5, <1>19
<1> QED
  BY <1>6, <1>7, <1>8, <1>9, <1>10, <1>11, <1>12, <1>13, <1>14, <1>15, <1>16, <1>17,
     <1>18, <1>19 DEF TreeNext

LEMMA TrailGrows ==
    ASSUME NEW us \in Seq(UndoRec), NEW u \in UndoRec, NEW was, NEW files, NEW files2,
           NEW h, IsTrail(h, us, was, files), Undone(files2, u) = files
    PROVE  \E g : IsTrail(g, Append(us, u), was, files2)
<1>1. PICK n \in Nat : n = Len(us)
  OBVIOUS
<1>2. PICK vs : vs = Append(us, u)
  OBVIOUS
<1>3. Len(vs) = n + 1 /\ (\A k \in 1..n : vs[k] = us[k]) /\ vs[n + 1] = u
  BY <1>1, <1>2
<1>4. h[0] = was /\ h[n] = files /\ \A k \in 1..n : Undone(h[k], us[k]) = h[k - 1]
  BY <1>1 DEF IsTrail
<1> DEFINE g == [k \in 0..n + 1 |-> IF k = n + 1 THEN files2 ELSE h[k]]
<1>5. g[0] = was /\ g[n + 1] = files2 /\ g[n] = files
  BY <1>4
<1>6. \A k \in 0..n : g[k] = h[k]
  OBVIOUS
<1> HIDE DEF g
<1>7. ASSUME NEW k \in 1..n + 1 PROVE Undone(g[k], vs[k]) = g[k - 1]
  <2>1. CASE k = n + 1
    <3>1. k - 1 = n
      BY <2>1
    <3> QED
      BY <1>3, <1>5, <2>1, <3>1
  <2>2. CASE k # n + 1
    <3>1. k \in 1..n /\ k \in 0..n /\ k - 1 \in 0..n
      BY <2>2
    <3>2. g[k] = h[k] /\ g[k - 1] = h[k - 1] /\ vs[k] = us[k]
      BY <1>3, <1>6, <3>1
    <3> QED
      BY <1>4, <3>1, <3>2
  <2> QED
    BY <2>1, <2>2
<1>8. IsTrail(g, vs, was, files2)
  BY <1>3, <1>5, <1>7 DEF IsTrail
<1> QED
  BY <1>2, <1>8

LEMMA TrailShrinks ==
    ASSUME NEW us \in Seq(UndoRec), us # <<>>, NEW was, NEW files,
           NEW h, IsTrail(h, us, was, files)
    PROVE  IsTrail(h, RemoveAt(us, Len(us)), was, Undone(files, us[Len(us)]))
<1>1. PICK n \in Nat : n = Len(us)
  OBVIOUS
<1>2. PICK vs : vs = RemoveAt(us, n)
  OBVIOUS
<1>3. n > 0 /\ Len(vs) = n - 1 /\ \A k \in 1..n - 1 : vs[k] = us[k]
  BY <1>1, <1>2, LastTaken
<1>4. h[0] = was /\ h[n] = files /\ \A k \in 1..n : Undone(h[k], us[k]) = h[k - 1]
  BY <1>1 DEF IsTrail
<1>5. h[n - 1] = Undone(files, us[n])
  <2>1. n \in 1..n
    BY <1>3
  <2> QED
    BY <1>4, <2>1
<1>6. \A k \in 1..n - 1 : Undone(h[k], vs[k]) = h[k - 1]
  BY <1>3, <1>4
<1>7. IsTrail(h, vs, was, Undone(files, us[n]))
  BY <1>3, <1>4, <1>5, <1>6 DEF IsTrail
<1> QED
  BY <1>1, <1>2, <1>7

LEMMA TrailStep ==
    ASSUME TreeTypeOK, StashesHaveUndos, BatchIsAccepted, UndosLeadBack, [TreeNext]_treeVars
    PROVE  UndosLeadBack'
<1> USE DEF Is
<1>0. undos \in Seq(UndoRec) /\ home \in Snaps
  BY DEF TreeTypeOK
<1>1. CASE OutsideApply
  BY <1>1 DEF OutsideApply, UndosLeadBack
<1>2. ASSUME NEW muts \in Batches, ApplyBatch(muts) PROVE UndosLeadBack'
  <2>1. undos' = <<>> /\ before' = home' /\ Len(<<>>) = 0
    BY <1>2 DEF ApplyBatch, StashesHaveUndos
  <2> DEFINE h == [k \in 0..0 |-> home']
  <2>2. h[0] = home' /\ 1..0 = {}
    OBVIOUS
  <2> HIDE DEF h
  <2>3. IsTrail(h, undos', before', home')
    BY <2>1, <2>2 DEF IsTrail
  <2> QED
    BY <2>3 DEF UndosLeadBack
<1>3. CASE ApplyDisk
  <2>1. PICK m : m = Head(batch)
    OBVIOUS
  <2>2. /\ phase = "applying" /\ phase' = "applying" /\ before' = before
        /\ home' = Effect(home, m) /\ undos' = Append(undos, Undo(m))
    BY <1>3, <2>1 DEF ApplyDisk
  <2>3. over' = (over \/ (m.op = "move" /\ m.path \in DOMAIN home))
    BY <1>3, <2>1 DEF ApplyDisk
  <2> SUFFICES ASSUME ~over' PROVE \E h : IsTrail(h, undos', before', home')
    BY DEF UndosLeadBack
  <2>4. ~over /\ ~(m.op = "move" /\ m.path \in DOMAIN home)
    BY <2>3, Zenon
  <2>5. /\ m \in MutationRec /\ m.op \in {"create", "replace", "delete", "move"}
        /\ m.op = "move" => m.from \in DOMAIN home
    BY <1>3, <2>1, MutationAtHand, FitsIs
  <2>6. Undone(home', Undo(m)) = home
    BY <1>0, <2>2, <2>4, <2>5, UndoIs
  <2>7. Undo(m) \in UndoRec
    BY <1>0, <2>5, UndoType DEF MutationRec
  <2>8. PICK h : IsTrail(h, undos, before, home)
    BY <2>2, <2>4 DEF UndosLeadBack
  <2>9. PICK u, f : u = Undo(m) /\ f = home'
    OBVIOUS
  <2>10. \E g : IsTrail(g, Append(undos, u), before, f)
    BY <1>0, <2>6, <2>7, <2>8, <2>9, TrailGrows
  <2> QED
    BY <2>2, <2>9, <2>10
<1>4. CASE ApplyFails
  BY <1>4 DEF ApplyFails, UndosLeadBack, IsTrail
<1>5. CASE Rollback
  <2>1. /\ phase = "undoing" /\ phase' = "undoing" /\ undos # <<>>
        /\ home' = Undone(home, undos[Len(undos)]) /\ undos' = RemoveAt(undos, Len(undos))
        /\ before' = before /\ over' = over
    BY <1>5 DEF Rollback, NextUndo
  <2> SUFFICES ASSUME ~over PROVE \E h : IsTrail(h, undos', before', home')
    BY <2>1 DEF UndosLeadBack
  <2>2. PICK h : IsTrail(h, undos, before, home)
    BY <2>1 DEF UndosLeadBack
  <2>3. IsTrail(h, RemoveAt(undos, Len(undos)), before, Undone(home, undos[Len(undos)]))
    BY <1>0, <2>1, <2>2, TrailShrinks
  <2> QED
    BY <2>1, <2>3
<1>6. CASE RolledBack
  BY <1>6 DEF RolledBack, UndosLeadBack
<1>7. CASE ApplyDone
  BY <1>7 DEF ApplyDone, UndosLeadBack
<1>8. CASE Return
  BY <1>8 DEF Return, UndosLeadBack
<1>9. CASE UNCHANGED treeVars
  BY <1>9 DEF treeVars, UndosLeadBack, IsTrail
<1> QED
  BY <1>1, <1>2, <1>3, <1>4, <1>5, <1>6, <1>7, <1>8, <1>9, StepKinds DEF ApplySteps

\* One more mutation is touched.
LEMMA TouchedNext ==
    ASSUME NEW muts, NEW n \in Nat
    PROVE  /\ TouchedFirst(muts, 0) = {}
           /\ TouchedFirst(muts, n + 1) = TouchedFirst(muts, n) \cup Touched(muts[n + 1])
<1>1. 1..0 = {} /\ 1..n + 1 = (1..n) \cup {n + 1}
  OBVIOUS
<1>2. TouchedFirst(muts, 0) = {}
  BY <1>1 DEF TouchedFirst
<1>3. ASSUME NEW q
      PROVE  q \in TouchedFirst(muts, n + 1)
                <=> q \in TouchedFirst(muts, n) \/ q \in Touched(muts[n + 1])
  <2>1. q \in TouchedFirst(muts, n + 1) <=> \E i \in 1..n + 1 : q \in Touched(muts[i])
    BY DEF TouchedFirst
  <2>2. q \in TouchedFirst(muts, n) <=> \E i \in 1..n : q \in Touched(muts[i])
    BY DEF TouchedFirst
  <2> QED
    BY <1>1, <2>1, <2>2
<1> QED
  BY <1>2, <1>3

\* g has at the path of the mutation the body that it names: what was under
\* the old name in f, or what it sends, which has the form node.
Carries(g, f, m, node) ==
    /\ m.op = "move" => g[m.path] = f[m.from]
    /\ m.op \in {"create", "replace"} => g[m.path] = node

LEMMA BothCarry ==
    ASSUME NEW f, NEW m \in MutationRec
    PROVE  /\ Carries(After(f, m), f, m, NodeOf(m))
           /\ Carries(Effect(f, m), f, m, Written(f, m))
<1>1. CASE m.op = "move"
  BY <1>1 DEF Carries, After, Effect, With
<1>2. CASE m.op \in {"create", "replace"}
  <2>1. After(f, m) = With(f, m.path, NodeOf(m))
        /\ Effect(f, m) = With(f, m.path, Written(f, m))
    BY <1>2 DEF After, Effect
  <2>2. \A node : With(f, m.path, node)[m.path] = node
    BY DEF With
  <2> QED
    BY <1>2, <2>1, <2>2 DEF Carries
<1> QED
  BY <1>1, <1>2 DEF Carries

\* A node as it is on disk.
DiskNode(node) == IF node.kind = "dir" THEN Dir ELSE DiskFile(node.data)

LEMMA OnDiskIs ==
    ASSUME NEW f, NEW p \in DOMAIN f
    PROVE  OnDisk(f)[p] = DiskNode(f[p])
  BY DEF OnDisk, DiskNode

\* What a mutation writes is what it projects.
LEMMA WrittenIs ==
    ASSUME NEW f, NEW m \in MutationRec
    PROVE  Written(f, m) = DiskNode(NodeOf(m))
<1>1. CASE m.kind = "dir"
  BY <1>1 DEF Written, NodeOf, DiskNode, Dir
<1>2. CASE m.kind # "dir"
  BY <1>2 DEF Written, NodeOf, DiskNode, File
<1> QED
  BY <1>1, <1>2

LEMMA FirstGrows ==
    ASSUME NEW files \in Snaps, NEW was, NEW prior, NEW muts, NEW n \in Nat, NEW snap \in Snaps,
           FirstAreOnDisk(files, was, muts, n, snap, prior),
           NEW m \in MutationRec, m = muts[n + 1], NEW files2, NEW snap2, NEW any,
           Fits(snap, m), m.op = "move" => m.from \in DOMAIN files,
           Changed(files2, files, m), Changed(snap2, snap, m),
           Carries(files2, files, m, Written(any, m)), Carries(snap2, snap, m, NodeOf(m))
    PROVE  FirstAreOnDisk(files2, was, muts, n + 1, snap2, prior)
<1>1. PICK T, U : T = TouchedFirst(muts, n) /\ U = TouchedFirst(muts, n + 1)
  OBVIOUS
<1>2. U = T \cup Touched(m)
  BY <1>1, TouchedNext
<1>3. /\ T \cap DOMAIN files = T \cap DOMAIN snap
      /\ \A p \in Path \ T : Agree(files, was, p) /\ Agree(snap, prior, p)
      /\ \A p \in T \cap DOMAIN files : BodyIsRight(files, was, snap, prior, muts, n, p)
  BY <1>1 DEF FirstAreOnDisk
<1>4. /\ DOMAIN files2 = (DOMAIN files \ Gone(m)) \cup Added(m)
      /\ DOMAIN snap2 = (DOMAIN snap \ Gone(m)) \cup Added(m)
      /\ \A p \in Path \ Touched(m) : Agree(files2, files, p) /\ Agree(snap2, snap, p)
      /\ DOMAIN files2 \subseteq Path
  BY SnapIs DEF Changed, AgreeOff
<1>5. Touched(m) = Gone(m) \cup Added(m)
  BY TouchedIs
<1>6. PICK G, A : G = Gone(m) /\ A = Added(m)
  OBVIOUS
<1>7. U = T \cup (G \cup A) /\ DOMAIN files2 = (DOMAIN files \ G) \cup A
      /\ DOMAIN snap2 = (DOMAIN snap \ G) \cup A
  BY <1>2, <1>4, <1>5, <1>6
<1>8. U \cap DOMAIN files2 = U \cap DOMAIN snap2
  BY <1>3, <1>7
<1>9. ASSUME NEW p \in Path \ U PROVE Agree(files2, was, p) /\ Agree(snap2, prior, p)
  <2>1. /\ Agree(files2, files, p) /\ Agree(files, was, p)
        /\ Agree(snap2, snap, p) /\ Agree(snap, prior, p)
    BY <1>2, <1>3, <1>4
  <2> QED
    BY <2>1 DEF Agree
<1>10. 1..n \subseteq 1..n + 1 /\ n + 1 \in 1..n + 1
  OBVIOUS
<1>11. ASSUME NEW q \in T \cap DOMAIN files, NEW p \in DOMAIN snap2,
              files2[p] = files[q], snap2[p] = snap[q]
       PROVE  BodyIsRight(files2, was, snap2, prior, muts, n + 1, p)
  <2>0. BodyIsRight(files, was, snap, prior, muts, n, q) /\ q \in DOMAIN snap
    BY <1>3
  <2>1. CASE files[q] = OnDisk(snap)[q]
    <3>1. OnDisk(snap2)[p] = OnDisk(snap)[q]
      BY <1>11, <2>0, OnDiskIs
    <3> QED
      BY <1>11, <2>1, <3>1 DEF BodyIsRight
  <2>2. CASE \E r \in Path : BodyOfMoved(files, was, snap, prior, muts, n, r, q)
    <3>1. PICK r \in Path : BodyOfMoved(files, was, snap, prior, muts, n, r, q)
      BY <2>2
    <3>2. BodyOfMoved(files2, was, snap2, prior, muts, n + 1, r, p)
      BY <1>10, <1>11, <3>1 DEF BodyOfMoved
    <3> QED
      BY <3>2 DEF BodyIsRight
  <2> QED
    BY <2>0, <2>1, <2>2 DEF BodyIsRight
<1>12. ASSUME NEW p \in U \cap DOMAIN files2
       PROVE  BodyIsRight(files2, was, snap2, prior, muts, n + 1, p)
  <2>0. p \in DOMAIN snap2 /\ p \in Path
    BY <1>4, <1>8
  <2>1. CASE p \notin Touched(m)
    <3>1. p \in T /\ Agree(files2, files, p) /\ Agree(snap2, snap, p)
      BY <1>2, <1>4, <2>0, <2>1
    <3>2. p \in DOMAIN files /\ files2[p] = files[p] /\ p \in DOMAIN snap /\ snap2[p] = snap[p]
      BY <1>12, <2>0, <3>1 DEF Agree
    <3> QED
      BY <1>11, <2>0, <3>1, <3>2
  <2>2. CASE p \in Touched(m)
    <3>1. p = m.path /\ m.op # "delete"
      <4>1. /\ m.op \in {"create", "replace", "delete", "move"}
            /\ m.op = "move" => m.from # m.path
        BY FitsIs
      <4>2. p \in Gone(m) => p \in Added(m)
        BY <1>4, <1>12
      <4> QED
        BY <1>5, <2>2, <4>1, <4>2 DEF Gone, Added
    <3>2. CASE m.op \in {"create", "replace"}
      <4>1. files2[p] = Written(any, m) /\ snap2[p] = NodeOf(m)
        BY <3>1, <3>2 DEF Carries
      <4>2. OnDisk(snap2)[p] = DiskNode(NodeOf(m))
        BY <2>0, <4>1, OnDiskIs
      <4> QED
        BY <4>1, <4>2, WrittenIs DEF BodyIsRight
    <3>3. CASE m.op = "move"
      <4>1. /\ files2[p] = files[m.from] /\ snap2[p] = snap[m.from]
            /\ m.from \in DOMAIN files /\ m.from \in DOMAIN snap
        BY <3>1, <3>3, FitsIs DEF Carries
      <4>2. PICK r \in Path : r = m.from
        BY MutationTypes
      <4>3. CASE r \in T
        BY <1>11, <2>0, <4>1, <4>2, <4>3
      <4>4. CASE r \notin T
        <5>1. Agree(files, was, r) /\ Agree(snap, prior, r)
          BY <1>3, <4>4
        <5>2. /\ r \in DOMAIN was /\ files[r] = was[r]
              /\ r \in DOMAIN prior /\ snap[r] = prior[r]
          BY <4>1, <4>2, <5>1 DEF Agree
        <5>3. BodyOfMoved(files2, was, snap2, prior, muts, n + 1, r, p)
          BY <1>10, <3>3, <4>1, <4>2, <5>2 DEF BodyOfMoved
        <5> QED
          BY <5>3 DEF BodyIsRight
      <4> QED
        BY <4>3, <4>4
    <3> QED
      BY <3>1, <3>2, <3>3, FitsIs
  <2> QED
    BY <2>1, <2>2
<1> QED
  BY <1>1, <1>8, <1>9, <1>12 DEF FirstAreOnDisk

LEMMA AcceptedStep ==
    ASSUME TreeTypeOK, BatchIsAccepted, [TreeNext]_treeVars
    PROVE  BatchIsAccepted'
<1> USE DEF Is
<1>1. CASE OutsideApply
  BY <1>1 DEF OutsideApply, BatchIsAccepted
<1>2. ASSUME NEW muts \in Batches, ApplyBatch(muts) PROVE BatchIsAccepted'
  <2>1. muts \in Seq(MutationRec)
    BY CallAssumption
  <2>2. /\ Apply(projected, muts).ok /\ next' = Apply(projected, muts).snap
        /\ batch' = muts /\ arg' = muts /\ projected' = projected
    BY <1>2 DEF ApplyBatch
  <2>3. /\ Apply(projected', arg').ok /\ next' = Apply(projected', arg').snap
        /\ old' = projected'
    BY <1>2, <2>2 DEF ApplyBatch
  <2>4. PICK n \in Nat : n = Len(muts)
    BY <2>1
  <2>5. Len(batch') <= Len(arg') /\ Done' = 0
    BY <2>2, <2>4 DEF Done
  <2>6. \A i \in 1..Len(batch') : batch'[i] = arg'[Done' + i]
    BY <2>2, <2>4, <2>5
  <2> QED
    BY <2>3, <2>5, <2>6 DEF BatchIsAccepted
<1>3. CASE ApplyDisk
  <2>1. /\ phase = "applying" /\ batch # <<>> /\ batch' = Tail(batch)
        /\ UNCHANGED <<projected, next, arg, old>>
        /\ batch \in Seq(MutationRec) /\ arg \in Seq(MutationRec)
    BY <1>3 DEF ApplyDisk, TreeTypeOK
  <2>2. /\ Apply(projected, arg).ok /\ next = Apply(projected, arg).snap
        /\ old = projected /\ Len(batch) <= Len(arg)
        /\ \A i \in 1..Len(batch) : batch[i] = arg[Done + i]
    BY <2>1 DEF BatchIsAccepted
  <2>9. PICK b \in Nat, a \in Nat : b = Len(batch) /\ a = Len(arg)
    BY <2>1
  <2>10. PICK d \in Int : d = Done
    BY <2>9 DEF Done
  <2>3. b = Len(batch) /\ a = Len(arg) /\ d = Done
    BY <2>9, <2>10
  <2>4. b > 0 /\ d = a - b /\ b <= a /\ Len(batch') = b - 1 /\ Len(arg') = a
    BY <2>1, <2>2, <2>3 DEF Done
  <2>5. Done' = a - (b - 1)
    BY <2>4 DEF Done
  <2>6. Done' = d + 1
    BY <2>3, <2>4, <2>5
  <2>7. ASSUME NEW i \in 1..b - 1 PROVE batch'[i] = arg'[(d + 1) + i]
    <3>1. i + 1 \in 1..b /\ d + (i + 1) = (d + 1) + i
      BY <2>3, <2>4
    <3>2. batch'[i] = batch[i + 1]
      BY <2>1, <2>3, <2>4
    <3> QED
      BY <2>1, <2>2, <2>3, <3>1, <3>2
  <2>8. Apply(projected, arg)'.ok /\ next' = Apply(projected, arg)'.snap /\ old' = projected'
    BY <2>1, <2>2
  <2> QED
    BY <2>3, <2>4, <2>6, <2>7, <2>8 DEF BatchIsAccepted
<1>4. CASE ApplyFails \/ Rollback \/ RolledBack \/ ApplyDone \/ Return
  BY <1>4 DEF ApplyFails, Rollback, RolledBack, ApplyDone, Return, BatchIsAccepted
<1>5. CASE UNCHANGED treeVars
  <2>1. UNCHANGED <<projected, next, arg, batch, phase, old>>
    BY <1>5 DEF treeVars
  <2>2. Done' = Done /\ Apply(projected, arg)' = Apply(projected, arg)
    BY <2>1 DEF Done
  <2> QED
    BY <2>1, <2>2 DEF BatchIsAccepted
<1> QED
  BY <1>1, <1>2, <1>3, <1>4, <1>5, StepKinds DEF ApplySteps

LEMMA AppliedStep ==
    ASSUME TreeTypeOK, BatchIsAccepted, AppliedIsOnDisk, [TreeNext]_treeVars
    PROVE  AppliedIsOnDisk'
<1> USE DEF Is
<1>0. home \in Snaps /\ batch \in Seq(MutationRec) /\ arg \in Seq(MutationRec)
  BY DEF TreeTypeOK
<1>1. CASE OutsideApply
  BY <1>1 DEF OutsideApply, AppliedIsOnDisk
<1>2. ASSUME NEW muts \in Batches, ApplyBatch(muts) PROVE AppliedIsOnDisk'
  <2>1. /\ muts \in Seq(MutationRec) /\ phase' = "applying"
        /\ batch' = muts /\ arg' = muts /\ before' = home /\ home' = home
        /\ old' = projected /\ projected' = projected
    BY <1>2, CallAssumption DEF ApplyBatch
  <2>2. PICK n \in Nat : n = Len(muts)
    BY <2>1
  <2>3. Done' = 0
    BY <2>1, <2>2 DEF Done
  <2>4. TouchedFirst(muts, 0) = {}
    BY TouchedNext
  <2>5. \A p \in Path : Agree(home, home, p) /\ Agree(projected, projected, p)
    BY DEF Agree
  <2>6. FirstAreOnDisk(home, home, muts, 0, projected, projected)
    BY <2>4, <2>5 DEF FirstAreOnDisk
  <2>8. Steps(projected, muts)[0].snap = projected
    <3>1. Steps(projected, muts)[0] = Start(projected, muts)
      BY <2>1, StepsIs
    <3> QED
      BY <3>1 DEF Start
  <2>7. FirstAreOnDisk(home', before', arg', Done', Steps(projected', arg')[Done'].snap, old')
    BY <2>1, <2>3, <2>6, <2>8
  <2> QED
    BY <2>1, <2>7 DEF AppliedIsOnDisk
<1>3. CASE ApplyDisk
  <2>1. PICK d \in Nat : d = Done
    BY <1>3, MutationAtHand
  <2>2. PICK m, s, t : /\ m = Head(batch) /\ s = Steps(projected, arg)[d].snap
                       /\ t = Steps(projected, arg)[d + 1].snap
    OBVIOUS
  <2>3. /\ batch # <<>> /\ m \in MutationRec /\ m = arg[d + 1]
        /\ s \in Snaps /\ Fits(s, m) /\ t = After(s, m)
        /\ m.op = "move" => m.from \in DOMAIN home
    BY <1>3, <2>1, <2>2, MutationAtHand
  <2>4. /\ phase = "applying" /\ phase' = "applying"
        /\ home' = Effect(home, m) /\ batch' = Tail(batch)
        /\ UNCHANGED <<projected, arg, before, old>>
    BY <1>3, <2>2 DEF ApplyDisk
  <2>5. Changed(home', home, m)
    BY <1>0, <2>3, <2>4, EffectIs, FitsIs
  <2>6. Changed(t, s, m)
    BY <2>3, AfterIs, FitsIs
  <2>7. FirstAreOnDisk(home, before, arg, d, s, old)
    BY <2>1, <2>2, <2>4 DEF AppliedIsOnDisk
  <2>12. Carries(home', home, m, Written(home, m)) /\ Carries(t, s, m, NodeOf(m))
    BY <2>3, <2>4, BothCarry
  <2>8. FirstAreOnDisk(home', before, arg, d + 1, t, old)
    <3>1. PICK files2, W, P, M : files2 = home' /\ W = before /\ P = old /\ M = arg
      OBVIOUS
    <3>2. /\ FirstAreOnDisk(home, W, M, d, s, P) /\ m = M[d + 1]
          /\ Changed(files2, home, m) /\ Carries(files2, home, m, Written(home, m))
      BY <2>3, <2>5, <2>7, <2>12, <3>1
    <3>3. FirstAreOnDisk(files2, W, M, d + 1, t, P)
      BY <1>0, <2>3, <2>6, <2>12, <3>2, FirstGrows
    <3> QED
      BY <3>1, <3>3
  <2>9. Done' = d + 1
    <3>1. PICK b \in Nat, a \in Nat : b = Len(batch) /\ a = Len(arg)
      BY <1>0
    <3>2. b > 0 /\ Len(batch') = b - 1 /\ Len(arg') = a
      BY <1>0, <2>3, <2>4, <3>1
    <3>3. d = a - b /\ Done' = a - (b - 1)
      BY <2>1, <3>1, <3>2 DEF Done
    <3> QED
      BY <3>3
  <2>10. Steps(projected', arg')[Done'].snap = t
    BY <2>2, <2>4, <2>9
  <2>11. FirstAreOnDisk(home', before', arg', Done', Steps(projected', arg')[Done'].snap, old')
    BY <2>4, <2>8, <2>9, <2>10
  <2> QED
    BY <2>4, <2>11 DEF AppliedIsOnDisk
<1>4. CASE ApplyFails \/ Rollback \/ RolledBack \/ Return
  BY <1>4 DEF ApplyFails, Rollback, RolledBack, Return, AppliedIsOnDisk
<1>5. CASE ApplyDone
  <2>1. /\ phase = "applying" /\ batch = <<>> /\ projected' = next /\ phase' = "applied"
        /\ UNCHANGED <<home, arg, before, old>>
    BY <1>5 DEF ApplyDone
  <2>2. Len(batch) = 0 /\ Done = Len(arg)
    BY <1>0, <2>1 DEF Done
  <2>3. FirstAreOnDisk(home, before, arg, Len(arg), Steps(projected, arg)[Len(arg)].snap, old)
    BY <2>1, <2>2 DEF AppliedIsOnDisk
  <2>4. Steps(projected, arg)[Len(arg)].snap = projected'
    BY <2>1 DEF BatchIsAccepted, Apply
  <2>5. FirstAreOnDisk(home', before', arg', Len(arg'), projected', old')
    BY <2>1, <2>3, <2>4
  <2> QED
    BY <2>1, <2>5 DEF AppliedIsOnDisk
<1>6. CASE UNCHANGED treeVars
  <2>1. UNCHANGED <<projected, home, before, arg, batch, phase, old>>
    BY <1>6 DEF treeVars
  <2>2. Done' = Done
    BY <2>1 DEF Done
  <2>3. Steps(projected, arg)' = Steps(projected, arg)
    BY <2>1
  <2> QED
    BY <2>1, <2>2, <2>3 DEF AppliedIsOnDisk
<1> QED
  BY <1>1, <1>2, <1>3, <1>4, <1>5, <1>6, StepKinds DEF ApplySteps

----------------------------------------------------------------------------
(* The theorems about trees.                                               *)

LEMMA TreeInvStart ==
    ASSUME TreeInit
    PROVE  TreeInv
<1>1. TreeTypeOK
  BY TreeTypesStart
<1>2. phase = "idle" /\ undos = <<>> /\ stashes = {} /\ Len(<<>>) = 0
  BY DEF TreeInit
<1>3. StashesHaveUndos
  BY <1>2 DEF StashesHaveUndos
<1>4. KeptUnlessOver /\ RenamedIsProjected /\ UndosLeadBack
  BY <1>2 DEF KeptUnlessOver, RenamedIsProjected, UndosLeadBack
<1>5. BatchIsAccepted /\ AppliedIsOnDisk
  BY <1>2 DEF BatchIsAccepted, AppliedIsOnDisk
<1> QED
  BY <1>1, <1>3, <1>4, <1>5 DEF TreeInv

LEMMA TreeInvStep ==
    ASSUME TreeInv, [TreeNext]_treeVars
    PROVE  TreeInv'
  BY TreeTypesStep, StashesStep, ReplaceStep, TrailStep, AcceptedStep, AppliedStep, Zenon
     DEF TreeInv

LEMMA TreeInvHolds == TreeSpec => []TreeInv
<1>1. TreeInit => TreeInv
  BY TreeInvStart
<1>2. TreeInv /\ [TreeNext]_treeVars => TreeInv'
  BY TreeInvStep
<1> QED
  BY <1>1, <1>2, PTL DEF TreeSpec

\* Whatever the guest, the callers and the disk do, Home and the projection
\* are trees of the caller's paths, and a batch is what it was sent as.
THEOREM TreeTypesHold == TreeSpec => []TreeTypeOK
<1>1. TreeInv => TreeTypeOK
  BY DEF TreeInv
<1> QED
  BY <1>1, TreeInvHolds, PTL

\* A batch of any length that fails after any of its mutations is undone to
\* what was there, unless a move replaced a file, a ReplaceTree that could
\* not write its files has changed nothing, and no file stays moved aside
\* (rollback, rewriteHome, applyHome).
THEOREM FailuresAreUndone == TreeSpec => []FailureIsUndone
<1>1. TreeInv => FailureIsUndone
  <2> SUFFICES ASSUME TreeInv PROVE FailureIsUndone
    OBVIOUS
  <2>1. Is("failed") /\ ~over => home = before
    BY DEF TreeInv, KeptUnlessOver, Is
  <2>2. Ended => stashes = {}
    BY DEF TreeInv, StashesHaveUndos, Ended
  <2> QED
    BY <2>1, <2>2 DEF FailureIsUndone
<1> QED
  BY <1>1, TreeInvHolds, PTL

\* A ReplaceTree that succeeds has put the projection on disk, and an Apply
\* that succeeds has put there, at the paths that it names and nowhere else,
\* what it projected: the same paths, with the bodies that it sent, or moved
\* there as the guest had left them (server.replace, server.apply).
THEOREM SuccessesAreOnDisk == TreeSpec => []SuccessIsOnDisk
<1>1. TreeInv => SuccessIsOnDisk
  <2> SUFFICES ASSUME TreeInv PROVE SuccessIsOnDisk
    OBVIOUS
  <2>1. Is("replaced") => home = OnDisk(projected)
    BY DEF TreeInv, RenamedIsProjected, Is
  <2>2. ASSUME Is("applied")
        PROVE  /\ TouchedBy(arg) \cap DOMAIN home = TouchedBy(arg) \cap DOMAIN projected
               /\ \A p \in TouchedBy(arg) \cap DOMAIN home :
                     home[p] = OnDisk(projected)[p] \/ \E r \in Path : MovedWithBody(r, p)
               /\ LET rest == ValidPath \ TouchedBy(arg)
                  IN  Restrict(home, DOMAIN home \cap rest)
                         = Restrict(before, DOMAIN before \cap rest)
    <3>1. PICK T : T = TouchedBy(arg)
      OBVIOUS
    <3>2. T = TouchedFirst(arg, Len(arg))
      BY <3>1 DEF TouchedBy, TouchedFirst
    <3>3. FirstAreOnDisk(home, before, arg, Len(arg), projected, old)
      BY <2>2 DEF TreeInv, AppliedIsOnDisk, Is
    <3>4. T \cap DOMAIN home = T \cap DOMAIN projected
      BY <3>2, <3>3 DEF FirstAreOnDisk
    <3>5. \A p \in Path \ T : Agree(home, before, p)
      BY <3>2, <3>3 DEF FirstAreOnDisk
    <3>6. PICK rest : rest = ValidPath \ T
      OBVIOUS
    <3>7. \A p \in rest : (p \in DOMAIN home <=> p \in DOMAIN before)
                          /\ (p \in DOMAIN home => home[p] = before[p])
      BY <3>5, <3>6, TreeAssumption DEF Agree
    <3>8. PICK D : D = DOMAIN home \cap rest
      OBVIOUS
    <3>9. D = DOMAIN before \cap rest /\ \A p \in D : home[p] = before[p]
      BY <3>7, <3>8
    <3>10. Restrict(home, D) = Restrict(before, D)
      BY <3>9 DEF Restrict
    <3>11. ASSUME NEW p \in T \cap DOMAIN home
           PROVE  home[p] = OnDisk(projected)[p] \/ \E r \in Path : MovedWithBody(r, p)
      <4>1. BodyIsRight(home, before, projected, old, arg, Len(arg), p)
        BY <3>2, <3>3, <3>11 DEF FirstAreOnDisk
      <4>2. ASSUME NEW r, BodyOfMoved(home, before, projected, old, arg, Len(arg), r, p)
            PROVE  MovedWithBody(r, p)
        BY <4>2 DEF BodyOfMoved, MovedWithBody
      <4> QED
        BY <4>1, <4>2 DEF BodyIsRight
    <3> QED
      BY <3>1, <3>4, <3>6, <3>8, <3>9, <3>10, <3>11
  <2> QED
    BY <2>1, <2>2 DEF SuccessIsOnDisk
<1> QED
  BY <1>1, TreeInvHolds, PTL

\* Whatever was projected, two mutations that touch different paths are
\* accepted in both orders or in neither, and lead to the same projection
\* (Apply of src/internal/tree/tree.go).
THEOREM OrderOfDisjointMutations == TreeSpec => []DisjointMutationsCommute
<1>1. TreeInv => DisjointMutationsCommute
  <2> SUFFICES ASSUME TreeInv PROVE DisjointMutationsCommute
    OBVIOUS
  <2>1. projected \in Snaps /\ Mutations \subseteq MutationRec
    BY CallAssumption DEF TreeInv, TreeTypeOK
  <2> QED
    BY <2>1, TwoCommute DEF DisjointMutationsCommute
<1> QED
  BY <1>1, TreeInvHolds, PTL
=============================================================================
