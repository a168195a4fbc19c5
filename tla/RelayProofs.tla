----------------------------- MODULE RelayProofs -----------------------------
(***************************************************************************)
(* Proofs about the relay: admission and shutdown (RelayAdmission), for    *)
(* any set of requests and clients and any caps; the key-config            *)
(* passthrough (ConfigFlight), for any set of callers; and the rate        *)
(* limiter (RateLimiter), for any budget, window and size of the table.    *)
(***************************************************************************)
EXTENDS RelayAdmission, ConfigFlight, RateLimiter,
        SequenceTheorems, FiniteSetTheorems, TLAPS

\* What the history of a request says about its slot: none before it is
\* admitted, and a release is asked for only by a connection that is gone.
SlotHistory ==
    \A r \in Requests :
        /\ stage[r] = "new" => ~holds[r] /\ ~releaseRequested[r]
        /\ releaseRequested[r] => ~connected[r]

\* The end of a drain: the listener closes after the last connection, and a
\* clean exit after the last slot.
DrainHistory ==
    /\ httpClosed => draining /\ \A r \in Requests : ~connected[r]
    /\ exit = "clean" => httpClosed /\ inflight = 0

\* The inductive invariant.
Inv == TypeOK /\ SlotsAccounted /\ WorkHoldsSlot /\ SlotHistory /\ DrainHistory

USE RequestsFinite, CapacityAssumption

\* The slots in use are finitely many.
LEMMA HeldFinite == IsFiniteSet(Held) /\ \A c \in Clients : IsFiniteSet(HeldBy(c))
<1>1. Held \subseteq Requests
  BY DEF Held
<1>2. \A c \in Clients : HeldBy(c) \subseteq Requests
  BY DEF Held, HeldBy
<1> QED
  BY <1>1, <1>2, FS_Subset

\* Taking a slot adds one to the slots of its client and to no other's
\* (server.js 437-438).
LEMMA TakenCounts ==
    ASSUME TypeOK, NEW r \in Requests, ~holds[r], ip' = ip,
           holds' = [holds EXCEPT ![r] = TRUE]
    PROVE  /\ Cardinality(Held)' = Cardinality(Held) + 1
           /\ \A c \in Clients :
                Cardinality(HeldBy(c))' = Cardinality(HeldBy(c)) + (IF c = ip[r] THEN 1 ELSE 0)
<1>1. Held' = Held \cup {r} /\ r \notin Held
  BY DEF TypeOK, Held
<1>2. \A c \in Clients : HeldBy(c)' = IF c = ip[r] THEN HeldBy(c) \cup {r} ELSE HeldBy(c)
  BY <1>1 DEF HeldBy
<1>3. \A c \in Clients : r \notin HeldBy(c)
  BY <1>1 DEF HeldBy
<1>4. \A c \in Clients : Cardinality(HeldBy(c)) \in Nat
  BY HeldFinite, FS_CardinalityType
<1>5. Cardinality(Held)' = Cardinality(Held) + 1
  BY <1>1, HeldFinite, FS_AddElement
<1>6. ASSUME NEW c \in Clients
      PROVE  Cardinality(HeldBy(c))' = Cardinality(HeldBy(c)) + (IF c = ip[r] THEN 1 ELSE 0)
  <2>1. CASE c = ip[r]
    <3>1. Cardinality(HeldBy(c) \cup {r}) = Cardinality(HeldBy(c)) + 1
      BY <1>3, HeldFinite, FS_AddElement
    <3> QED
      BY <2>1, <3>1, <1>2
  <2>2. CASE c # ip[r]
    BY <2>2, <1>2, <1>4
  <2> QED
    BY <2>1, <2>2
<1> QED
  BY <1>5, <1>6

\* Giving a slot back removes one, once (442-449).
LEMMA ReturnedCounts ==
    ASSUME TypeOK, NEW r \in Requests, holds[r], ip' = ip,
           holds' = [holds EXCEPT ![r] = FALSE]
    PROVE  /\ Cardinality(Held)' = Cardinality(Held) - 1
           /\ \A c \in Clients :
                Cardinality(HeldBy(c))' = Cardinality(HeldBy(c)) - (IF c = ip[r] THEN 1 ELSE 0)
           /\ Cardinality(Held) > 0
           /\ Cardinality(HeldBy(ip[r])) > 0
<1>1. Held' = Held \ {r} /\ r \in Held
  BY DEF TypeOK, Held
<1>2. \A c \in Clients : HeldBy(c)' = IF c = ip[r] THEN HeldBy(c) \ {r} ELSE HeldBy(c)
  BY <1>1 DEF HeldBy
<1>3. r \in HeldBy(ip[r]) /\ ip[r] \in Clients
  BY <1>1 DEF HeldBy, TypeOK
<1>4. \A c \in Clients : Cardinality(HeldBy(c)) \in Nat
  BY HeldFinite, FS_CardinalityType
<1>5. Cardinality(Held)' = Cardinality(Held) - 1
  BY <1>1, HeldFinite, FS_RemoveElement
<1>6. ASSUME NEW c \in Clients
      PROVE  Cardinality(HeldBy(c))' = Cardinality(HeldBy(c)) - (IF c = ip[r] THEN 1 ELSE 0)
  <2>1. CASE c = ip[r]
    <3>1. Cardinality(HeldBy(c) \ {r}) = Cardinality(HeldBy(c)) - 1
      BY <1>3, <2>1, HeldFinite, FS_RemoveElement
    <3> QED
      BY <2>1, <3>1, <1>2
  <2>2. CASE c # ip[r]
    BY <2>2, <1>2, <1>4
  <2> QED
    BY <2>1, <2>2
<1>7. Cardinality(Held) \in Nat /\ Cardinality(Held) # 0
  BY <1>1, HeldFinite, FS_CardinalityType, FS_EmptySet
<1>8. Cardinality(HeldBy(ip[r])) # 0
  BY <1>3, HeldFinite, FS_EmptySet
<1> QED
  BY <1>3, <1>4, <1>5, <1>6, <1>7, <1>8

\* releaseSlot keeps the account, whether or not the slot was already given
\* back, and ends the drain only when the last one is (440-450, 161-163).
LEMMA GiveBackKeeps ==
    ASSUME Inv, NEW r \in Requests, exit = "running", GiveBack(r), ip' = ip
    PROVE  /\ holds' = [holds EXCEPT ![r] = FALSE]
           /\ inflight' \in Nat /\ clientInflight' \in [Clients -> Nat]
           /\ SlotsAccounted'
           /\ exit' \in {"running", "clean", "forced"}
           /\ exit' = "clean" => draining /\ httpClosed /\ inflight' = 0
<1> USE DEF Inv
<1>1. CASE ~holds[r]
  <2>1. UNCHANGED <<holds, inflight, clientInflight, exit>>
    BY <1>1 DEF GiveBack
  <2>2. holds' = [holds EXCEPT ![r] = FALSE]
    BY <1>1, <2>1 DEF TypeOK
  <2>3. Held' = Held /\ \A c \in Clients : HeldBy(c)' = HeldBy(c)
    BY <2>1 DEF Held, HeldBy
  <2> QED
    BY <2>1, <2>2, <2>3 DEF TypeOK, SlotsAccounted
<1>2. CASE holds[r]
  <2>1. /\ holds' = [holds EXCEPT ![r] = FALSE]
        /\ inflight' = inflight - 1
        /\ clientInflight' = [clientInflight EXCEPT ![ip[r]] = @ - 1]
        /\ exit' = IF draining /\ httpClosed /\ inflight - 1 = 0 THEN "clean" ELSE exit
    BY <1>2 DEF GiveBack, FinishDrain
  <2>2. /\ Cardinality(Held)' = Cardinality(Held) - 1
        /\ \A c \in Clients :
             Cardinality(HeldBy(c))' = Cardinality(HeldBy(c)) - (IF c = ip[r] THEN 1 ELSE 0)
        /\ Cardinality(Held) > 0
        /\ Cardinality(HeldBy(ip[r])) > 0
    BY <1>2, <2>1, ReturnedCounts
  <2>3. ip[r] \in Clients /\ inflight \in Nat /\ clientInflight \in [Clients -> Nat]
    BY DEF TypeOK
  <2>4. inflight > 0 /\ clientInflight[ip[r]] > 0
    BY <2>2, <2>3 DEF SlotsAccounted
  <2>5. inflight' \in Nat /\ clientInflight' \in [Clients -> Nat]
    BY <2>1, <2>3, <2>4
  <2>6. ASSUME NEW c \in Clients
        PROVE  /\ clientInflight'[c] = Cardinality(HeldBy(c))'
               /\ clientInflight'[c] <= MaxClientInflight
    BY <2>1, <2>2, <2>3 DEF SlotsAccounted
  <2>7. inflight' = Cardinality(Held)' /\ inflight' <= MaxInflight
    BY <2>1, <2>2, <2>3 DEF SlotsAccounted
  <2>8. SlotsAccounted'
    BY <2>6, <2>7 DEF SlotsAccounted
  <2> QED
    BY <2>1, <2>3, <2>5, <2>8
<1> QED
  BY <1>1, <1>2

\* The relay starts with every slot free.
LEMMA InitInv == Init => Inv
<1> SUFFICES ASSUME Init PROVE Inv
  OBVIOUS
<1>1. Held = {} /\ \A c \in Clients : HeldBy(c) = {}
  BY DEF Init, Held, HeldBy
<1>2. TypeOK
  BY DEF Init, TypeOK
<1>3. SlotsAccounted
  BY <1>1, FS_EmptySet DEF Init, SlotsAccounted
<1> QED
  BY <1>2, <1>3 DEF Init, Inv, WorkHoldsSlot, SlotHistory, DrainHistory, Working

\* What the steps that leave the slots alone keep of the account.
LEMMA SlotsUnchanged ==
    ASSUME SlotsAccounted, UNCHANGED <<ip, holds, inflight, clientInflight>>
    PROVE  SlotsAccounted'
<1>1. Held' = Held /\ \A c \in Clients : HeldBy(c)' = HeldBy(c)
  BY DEF Held, HeldBy
<1> QED
  BY <1>1 DEF SlotsAccounted

\* Every step of a request and of the shutdown preserves the invariant.
LEMMA NextInv == Inv /\ [Next]_vars => Inv'
<1> SUFFICES ASSUME Inv, [Next]_vars PROVE Inv'
  OBVIOUS
<1> USE DEF Inv
<1>1. CASE UNCHANGED vars
  <2>1. UNCHANGED <<stage, ip, connected, replied, holds, releaseRequested,
                    inflight, clientInflight, draining, httpClosed, exit>>
    BY <1>1 DEF vars, request, slots, process
  <2> QED
    BY <2>1, SlotsUnchanged DEF TypeOK, WorkHoldsSlot, SlotHistory, DrainHistory
<1>2. ASSUME NEW r \in Requests, RefuseEarly(r) PROVE Inv'
  <2>1. SlotsAccounted'
    BY <1>2, SlotsUnchanged DEF RefuseEarly, slots
  <2>2. TypeOK'
    BY <1>2 DEF RefuseEarly, slots, process, TypeOK, Working
  <2>3. WorkHoldsSlot' /\ SlotHistory' /\ DrainHistory'
    BY <1>2 DEF RefuseEarly, slots, process, TypeOK, Working, WorkHoldsSlot, SlotHistory, DrainHistory
  <2> QED
    BY <2>1, <2>2, <2>3
<1>3. ASSUME NEW r \in Requests, Admit(r) PROVE Inv'
  <2>1. ~holds[r] /\ ip[r] \in Clients
    BY <1>3 DEF Admit, SlotHistory, TypeOK
  <2>2. TypeOK'
    BY <1>3 DEF Admit, process, TypeOK, Working
  <2>3. /\ Cardinality(Held)' = Cardinality(Held) + 1
        /\ \A c \in Clients :
             Cardinality(HeldBy(c))' = Cardinality(HeldBy(c)) + (IF c = ip[r] THEN 1 ELSE 0)
    BY <1>3, <2>1, TakenCounts DEF Admit
  <2>4. inflight < MaxInflight /\ clientInflight[ip[r]] < MaxClientInflight
    BY <1>3 DEF Admit, HasCapacity
  <2>5. ASSUME NEW c \in Clients
        PROVE  /\ clientInflight'[c] = Cardinality(HeldBy(c))'
               /\ clientInflight'[c] <= MaxClientInflight
    BY <1>3, <2>1, <2>3, <2>4 DEF Admit, SlotsAccounted, TypeOK
  <2>6. inflight' = Cardinality(Held)' /\ inflight' <= MaxInflight
    BY <1>3, <2>3, <2>4 DEF Admit, SlotsAccounted, TypeOK
  <2>7. SlotsAccounted'
    BY <2>5, <2>6 DEF SlotsAccounted
  <2>8. WorkHoldsSlot' /\ SlotHistory' /\ DrainHistory'
    BY <1>3 DEF Admit, process, TypeOK, Working, WorkHoldsSlot, SlotHistory, DrainHistory
  <2> QED
    BY <2>2, <2>7, <2>8
<1>4. ASSUME NEW r \in Requests, AuthRejects(r) \/ AuthAccepts(r) PROVE Inv'
  <2>1. /\ exit = "running" /\ stage[r] = "auth"
        /\ UNCHANGED <<ip, connected, releaseRequested, draining, httpClosed>>
        /\ replied' \in [Requests -> BOOLEAN]
    BY <1>4 DEF AuthRejects, AuthAccepts, AuthFinally, TypeOK
  <2>2. \/ stage' = [stage EXCEPT ![r] = "done"]
        \/ stage' = [stage EXCEPT ![r] = "body"] /\ connected[r]
    BY <1>4 DEF AuthRejects, AuthAccepts
  <2>3. CASE releaseRequested[r] \/ ~connected[r]
    <3>1. GiveBack(r)
      BY <1>4, <2>3 DEF AuthRejects, AuthAccepts, AuthFinally
    <3>2. stage' = [stage EXCEPT ![r] = "done"]
      BY <2>2, <2>3 DEF SlotHistory
    <3>3. /\ holds' = [holds EXCEPT ![r] = FALSE]
          /\ inflight' \in Nat /\ clientInflight' \in [Clients -> Nat]
          /\ SlotsAccounted'
          /\ exit' \in {"running", "clean", "forced"}
          /\ exit' = "clean" => draining /\ httpClosed /\ inflight' = 0
      BY <2>1, <3>1, GiveBackKeeps
    <3>4. TypeOK'
      BY <2>1, <3>2, <3>3 DEF TypeOK, Working
    <3>5. WorkHoldsSlot' /\ SlotHistory' /\ DrainHistory'
      BY <2>1, <3>2, <3>3 DEF TypeOK, Working, WorkHoldsSlot, SlotHistory, DrainHistory
    <3> QED
      BY <3>3, <3>4, <3>5
  <2>4. CASE ~releaseRequested[r] /\ connected[r]
    <3>1. UNCHANGED <<holds, inflight, clientInflight, exit>>
      BY <1>4, <2>4 DEF AuthRejects, AuthAccepts, AuthFinally
    <3>2. SlotsAccounted'
      BY <2>1, <3>1, SlotsUnchanged
    <3>3. TypeOK'
      BY <2>1, <2>2, <3>1 DEF TypeOK, Working
    <3>4. WorkHoldsSlot' /\ SlotHistory' /\ DrainHistory'
      BY <2>1, <2>2, <3>1 DEF TypeOK, Working, WorkHoldsSlot, SlotHistory, DrainHistory
    <3> QED
      BY <3>2, <3>3, <3>4
  <2> QED
    BY <2>3, <2>4
<1>5. ASSUME NEW r \in Requests, BodyEnds(r) \/ GatewayDone(r) PROVE Inv'
  <2>1. SlotsAccounted'
    BY <1>5, SlotsUnchanged DEF BodyEnds, GatewayDone, slots
  <2>2. TypeOK'
    BY <1>5 DEF BodyEnds, GatewayDone, slots, process, TypeOK, Working
  <2>3. WorkHoldsSlot' /\ SlotHistory' /\ DrainHistory'
    BY <1>5 DEF BodyEnds, GatewayDone, slots, process, TypeOK, Working, WorkHoldsSlot,
                SlotHistory, DrainHistory
  <2> QED
    BY <2>1, <2>2, <2>3
<1>6. ASSUME NEW r \in Requests, exit = "running", ReleaseSlot(r), ip' = ip,
             stage' = [stage EXCEPT ![r] = "done"],
             connected' = [connected EXCEPT ![r] = FALSE],
             replied' \in [Requests -> BOOLEAN]
      PROVE  Inv'
  <2>1. GiveBack(r) /\ UNCHANGED <<releaseRequested, draining, httpClosed>>
    BY <1>6 DEF ReleaseSlot
  <2>2. /\ holds' = [holds EXCEPT ![r] = FALSE]
        /\ inflight' \in Nat /\ clientInflight' \in [Clients -> Nat]
        /\ SlotsAccounted'
        /\ exit' \in {"running", "clean", "forced"}
        /\ exit' = "clean" => draining /\ httpClosed /\ inflight' = 0
    BY <1>6, <2>1, GiveBackKeeps
  <2>3. TypeOK'
    BY <1>6, <2>1, <2>2 DEF TypeOK, Working
  <2>4. WorkHoldsSlot' /\ SlotHistory' /\ DrainHistory'
    BY <1>6, <2>1, <2>2 DEF TypeOK, Working, WorkHoldsSlot, SlotHistory, DrainHistory
  <2> QED
    BY <2>2, <2>3, <2>4
<1>7. ASSUME NEW r \in Requests, BodyTooLarge(r) PROVE Inv'
  <2>1. replied' \in [Requests -> BOOLEAN]
    BY <1>7 DEF BodyTooLarge, TypeOK
  <2> QED
    BY <1>6, <1>7, <2>1 DEF BodyTooLarge
<1>8. ASSUME NEW r \in Requests, Flush(r) PROVE Inv'
  <2>1. stage' = [stage EXCEPT ![r] = "done"] /\ replied' \in [Requests -> BOOLEAN]
    BY <1>8 DEF Flush, TypeOK
  <2> QED
    BY <1>6, <1>8, <2>1 DEF Flush
<1>9. ASSUME NEW r \in Requests, Disconnect(r) PROVE Inv'
  <2>1. CASE stage[r] = "auth"
    <3>1. /\ releaseRequested' = [releaseRequested EXCEPT ![r] = TRUE]
          /\ connected' = [connected EXCEPT ![r] = FALSE]
          /\ UNCHANGED <<stage, ip, replied, holds, inflight, clientInflight,
                         draining, httpClosed, exit>>
      BY <1>9, <2>1 DEF Disconnect, DeferRelease, process
    <3>2. SlotsAccounted'
      BY <3>1, SlotsUnchanged
    <3>3. TypeOK'
      BY <3>1 DEF TypeOK
    <3>4. WorkHoldsSlot' /\ SlotHistory' /\ DrainHistory'
      BY <2>1, <3>1 DEF TypeOK, Working, WorkHoldsSlot, SlotHistory, DrainHistory
    <3> QED
      BY <3>2, <3>3, <3>4
  <2>2. CASE stage[r] # "auth"
    <3>1. replied' \in [Requests -> BOOLEAN]
      BY <1>9 DEF Disconnect, TypeOK
    <3> QED
      BY <1>6, <1>9, <2>2, <3>1 DEF Disconnect
  <2> QED
    BY <2>1, <2>2
<1>10. CASE BeginShutdown \/ HttpClosed \/ ForceExit
  <2>1. UNCHANGED <<stage, ip, connected, replied, holds, releaseRequested,
                    inflight, clientInflight>>
    BY <1>10 DEF BeginShutdown, HttpClosed, ForceExit, request, slots
  <2>2. SlotsAccounted'
    BY <2>1, SlotsUnchanged
  <2>3. TypeOK'
    BY <1>10, <2>1 DEF BeginShutdown, HttpClosed, ForceExit, FinishDrain, TypeOK
  <2>4. WorkHoldsSlot' /\ SlotHistory'
    BY <2>1 DEF WorkHoldsSlot, SlotHistory
  <2>5. DrainHistory'
    BY <1>10, <2>1 DEF BeginShutdown, HttpClosed, ForceExit, FinishDrain, DrainHistory
  <2> QED
    BY <2>2, <2>3, <2>4, <2>5
<1> QED
  BY <1>1, <1>2, <1>3, <1>4, <1>5, <1>7, <1>8, <1>9, <1>10 DEF Next, Handle

\* The invariant holds in every reachable state.
LEMMA InvHolds == Spec => []Inv
<1> QED
  BY InitInv, NextInv, PTL DEF Spec

\* Type correctness of the relay's admission.
THEOREM TypeCorrect == Spec => []TypeOK
<1>1. Inv => TypeOK
  BY DEF Inv
<1> QED
  BY <1>1, InvHolds, PTL

\* No path leaks a slot, gives one back twice or exceeds a cap.
THEOREM SlotsTheorem == Spec => []SlotsAccounted
<1>1. Inv => SlotsAccounted
  BY DEF Inv
<1> QED
  BY <1>1, InvHolds, PTL

\* A disconnect never frees the slot of work that goes on.
THEOREM WorkTheorem == Spec => []WorkHoldsSlot
<1>1. Inv => WorkHoldsSlot
  BY DEF Inv
<1> QED
  BY <1>1, InvHolds, PTL

\* A clean exit abandons nothing.
THEOREM CleanExitTheorem == Spec => []CleanExitIsIdle
<1>1. Inv => CleanExitIsIdle
  <2> SUFFICES ASSUME Inv, exit = "clean", NEW r \in Requests
               PROVE  stage[r] \notin Working /\ ~connected[r]
    BY DEF CleanExitIsIdle
  <2>1. ~connected[r] /\ inflight = 0
    BY DEF Inv, DrainHistory
  <2>2. Held = {}
    BY <2>1, HeldFinite, FS_EmptySet DEF Inv, SlotsAccounted
  <2>3. ~holds[r]
    BY <2>2 DEF Held
  <2> QED
    BY <2>1, <2>3 DEF Inv, WorkHoldsSlot
<1> QED
  BY <1>1, InvHolds, PTL

-----------------------------------------------------------------------------
(* The key-config passthrough.                                            *)

USE NoFlightAssumption

\* The life of a flight: it is started by a caller that has arrived, it is over
\* when its gateway request is closed, and then it has no callers left.
FlightHistory ==
    /\ configFlight # NoFlight => upstream[configFlight] # "none"
    /\ \A f \in Callers :
        /\ upstream[f] = "none" => ~completed[f] /\ callers[f] = {}
        /\ upstream[f] # "none" => callerStage[f] # "new"
        /\ completed[f] <=> upstream[f] = "closed"
        /\ completed[f] => callers[f] = {}

\* The callers of a flight are waiting, and whoever waits is a caller of the
\* flight that is joined.
WaitersAreCallers ==
    /\ \A f \in Callers : \A c \in callers[f] : callerStage[c] = "waiting"
    /\ \A c \in Callers : callerStage[c] = "waiting" =>
           configFlight \in Callers /\ c \in callers[configFlight]

\* The 'close' of a caller comes after its connection is gone.
CloseFollowsDisconnect == \A c \in Callers : closePending[c] => destroyed[c]

\* The inductive invariant.
FlightInv ==
    /\ ConfigTypeOK
    /\ OneOpenFlight
    /\ NoIdleUpstream
    /\ FlightHistory
    /\ WaitersAreCallers
    /\ CloseFollowsDisconnect
    /\ OneOutcome

\* No flight and no caller at the start.
LEMMA InitFlightInv == ConfigInit => FlightInv
  BY DEF ConfigInit, FlightInv, ConfigTypeOK, OneOpenFlight, NoIdleUpstream, FlightHistory,
      WaitersAreCallers, CloseFollowsDisconnect, OneOutcome, Open

\* What the end of a flight with one outcome for all of its callers does.
LEMMA FinishFlight ==
    ASSUME FlightInv, NEW f \in Callers, Open(f), NEW s \in {"200", "other", "499", "502"},
           Outcome(callers[f], s), Finish(f),
           configCache' \in {"empty", "fresh", "expired"},
           UNCHANGED <<cfgGw, destroyed>>
    PROVE  FlightInv'
<1> USE DEF FlightInv, ConfigTypeOK, Outcome, Finish, Open
<1>1. ConfigTypeOK'
  OBVIOUS
<1>2. OneOpenFlight' /\ NoIdleUpstream'
  BY DEF OneOpenFlight, NoIdleUpstream, FlightHistory
<1>3. FlightHistory'
  BY DEF FlightHistory
<1>4. configFlight = f
  BY DEF OneOpenFlight
<1>5. WaitersAreCallers'
  BY <1>4 DEF WaitersAreCallers, FlightHistory, OneOpenFlight
<1>6. CloseFollowsDisconnect'
  BY DEF CloseFollowsDisconnect
<1>7. OneOutcome'
  BY DEF OneOutcome, WaitersAreCallers
<1> QED BY <1>1, <1>2, <1>3, <1>5, <1>6, <1>7

\* Every step of a caller, of the gateway and of a client keeps the invariant.
LEMMA NextFlightInv == FlightInv /\ [ConfigNext]_configVars => FlightInv'
<1> SUFFICES ASSUME FlightInv, [ConfigNext]_configVars PROVE FlightInv'
  OBVIOUS
<1>1. ASSUME NEW c \in Callers, ServeDirectly(c) PROVE FlightInv'
  BY <1>1
  DEF ServeDirectly, Outcome, shared, flight, FlightInv, ConfigTypeOK, OneOpenFlight, NoIdleUpstream,
      FlightHistory, WaitersAreCallers, CloseFollowsDisconnect, OneOutcome, Open
<1>2. ASSUME NEW c \in Callers, Join(c) PROVE FlightInv'
  <2> USE <1>2 DEF Join, Joinable, Outcome, shared, FlightInv, ConfigTypeOK, Open
  <2>1. ConfigTypeOK'
    <3>1. CASE destroyed[c] BY <3>1
    <3>2. CASE ~destroyed[c] BY <3>2
    <3> QED BY <3>1, <3>2
  <2>2. OneOpenFlight'
    BY DEF OneOpenFlight, FlightHistory
  <2>3. NoIdleUpstream'
    <3>1. CASE destroyed[c] BY <3>1 DEF NoIdleUpstream, FlightHistory
    <3>2. CASE ~destroyed[c] BY <3>2 DEF NoIdleUpstream, FlightHistory
    <3> QED BY <3>1, <3>2
  <2>4. FlightHistory'
    BY DEF FlightHistory, OneOpenFlight
  <2>5. WaitersAreCallers'
    <3>1. CASE destroyed[c] BY <3>1 DEF WaitersAreCallers, FlightHistory, OneOpenFlight
    <3>2. CASE ~destroyed[c] BY <3>2 DEF WaitersAreCallers, FlightHistory, OneOpenFlight
    <3> QED BY <3>1, <3>2
  <2>6. CloseFollowsDisconnect'
    BY DEF CloseFollowsDisconnect
  <2>7. OneOutcome'
    BY DEF OneOutcome
  <2> QED BY <2>1, <2>2, <2>3, <2>4, <2>5, <2>6, <2>7
<1>3. ASSUME NEW c \in Callers, Depart(c) PROVE FlightInv'
  <2> USE <1>3 DEF Depart, Joinable, Outcome, FlightInv, ConfigTypeOK, Open
  <2>1. ConfigTypeOK'
    <3>1. CASE destroyed[c]
      <4>1. reply' \in [Callers -> {"none", "200", "other", "499", "502"}]
        BY <3>1
      <4>2. callerStage' \in [Callers -> {"new", "waiting", "done"}] /\ outcomes' \in [Callers -> Nat]
        BY <3>1
      <4>3. upstream' \in [Callers -> {"none", "open", "failed", "closed"}]
        BY <3>1
      <4>4. completed' \in [Callers -> BOOLEAN]
        BY <3>1
      <4>5. closePending' \in [Callers -> BOOLEAN]
        <5> HIDE DEF ConfigTypeOK, FlightInv
        <5>1. closePending' = [d \in Callers |-> d \notin {c} /\ closePending[d]]
          BY <3>1, Zenon
        <5> QED BY <5>1
      <4> QED BY <3>1, <4>1, <4>2, <4>3, <4>4, <4>5
    <3>2. CASE ~destroyed[c] BY <3>2
    <3> QED BY <3>1, <3>2
  <2>2. OneOpenFlight'
    BY DEF OneOpenFlight, FlightHistory
  <2>3. NoIdleUpstream'
    <3>1. CASE destroyed[c] BY <3>1 DEF NoIdleUpstream, FlightHistory
    <3>2. CASE ~destroyed[c] BY <3>2 DEF NoIdleUpstream, FlightHistory
    <3> QED BY <3>1, <3>2
  <2>4. FlightHistory'
    BY DEF FlightHistory, OneOpenFlight
  <2>5. WaitersAreCallers'
    <3>1. CASE destroyed[c] BY <3>1 DEF WaitersAreCallers, FlightHistory, OneOpenFlight
    <3>2. CASE ~destroyed[c] BY <3>2 DEF WaitersAreCallers, FlightHistory, OneOpenFlight
    <3> QED BY <3>1, <3>2
  <2>6. CloseFollowsDisconnect'
    BY DEF CloseFollowsDisconnect
  <2>7. OneOutcome'
    BY DEF OneOutcome
  <2> QED BY <2>1, <2>2, <2>3, <2>4, <2>5, <2>6, <2>7
<1>4. ASSUME NEW c \in Callers, CallerDisconnects(c) PROVE FlightInv'
  BY <1>4
  DEF CallerDisconnects, shared, flight, FlightInv, ConfigTypeOK, OneOpenFlight, NoIdleUpstream,
      FlightHistory, WaitersAreCallers, CloseFollowsDisconnect, OneOutcome, Open
<1>5. ASSUME NEW f \in Callers, GatewayAnswers(f) PROVE FlightInv'
  BY <1>5, FinishFlight DEF GatewayAnswers, FlightInv, ConfigTypeOK
<1>6. ASSUME NEW f \in Callers, GatewayTimeout(f) PROVE FlightInv'
  BY <1>6
  DEF GatewayTimeout, shared, caller, FlightInv, ConfigTypeOK, OneOpenFlight, NoIdleUpstream,
      FlightHistory, WaitersAreCallers, CloseFollowsDisconnect, OneOutcome, Open
<1>7. ASSUME NEW f \in Callers, GatewayFails(f) PROVE FlightInv'
  BY <1>7, FinishFlight DEF GatewayFails, FlightInv, ConfigTypeOK
<1>8. ASSUME NEW c \in Callers, NEW f \in Callers, Closed(c, f) PROVE FlightInv'
  <2>1. CASE LastCaller(c, f)
    <3>1. Open(f)
      BY <1>8 DEF Closed, FlightInv, FlightHistory, Open, ConfigTypeOK
    <3> QED BY <1>8, <2>1, <3>1, FinishFlight DEF Closed, FlightInv, ConfigTypeOK
  <2>2. CASE ~LastCaller(c, f)
    <3> USE <1>8, <2>2 DEF Closed, LastCaller, Outcome, FlightInv, ConfigTypeOK, Open
    <3>1. ConfigTypeOK'
      OBVIOUS
    <3>2. OneOpenFlight' /\ NoIdleUpstream' /\ FlightHistory'
      BY DEF OneOpenFlight, NoIdleUpstream, FlightHistory
    <3>3. configFlight = f
      BY DEF OneOpenFlight, FlightHistory
    <3>4. WaitersAreCallers'
      BY <3>3 DEF WaitersAreCallers, FlightHistory, OneOpenFlight
    <3>5. CloseFollowsDisconnect'
      BY DEF CloseFollowsDisconnect
    <3>6. OneOutcome'
      BY DEF OneOutcome, WaitersAreCallers
    <3> QED BY <3>1, <3>2, <3>4, <3>5, <3>6
  <2> QED BY <2>1, <2>2
<1>9. ASSUME CacheExpires PROVE FlightInv'
  BY <1>9
  DEF CacheExpires, flight, caller, FlightInv, ConfigTypeOK, OneOpenFlight, NoIdleUpstream,
      FlightHistory, WaitersAreCallers, CloseFollowsDisconnect, OneOutcome, Open
<1>10. CASE UNCHANGED configVars
  BY <1>10
  DEF configVars, shared, flight, caller, FlightInv, ConfigTypeOK, OneOpenFlight, NoIdleUpstream,
      FlightHistory, WaitersAreCallers, CloseFollowsDisconnect, OneOutcome, Open
<1> QED
  BY <1>1, <1>2, <1>3, <1>4, <1>5, <1>6, <1>7, <1>8, <1>9, <1>10 DEF ConfigNext

\* Inv holds in every reachable state.
THEOREM FlightInvHolds == ConfigSpec => []FlightInv
  BY InitFlightInv, NextFlightInv, PTL DEF ConfigSpec

\* Type correctness of the key-config passthrough.
THEOREM FlightTypeCorrect == ConfigSpec => []ConfigTypeOK
<1>1. FlightInv => ConfigTypeOK BY DEF FlightInv
<1> QED BY <1>1, FlightInvHolds, PTL

\* Concurrent callers share one gateway request, however many come and go: at
\* most one flight is open, it has callers, and every waiting caller is on it
\* (serveConfig, proxyGatewayRequest).
THEOREM SharedTheorem == ConfigSpec => []FlightsAreShared
<1>1. ASSUME FlightInv PROVE EveryWaiterHasFlight
  <2> SUFFICES ASSUME NEW c \in Callers, callerStage[c] = "waiting"
               PROVE  Cardinality({f \in Callers : Open(f) /\ c \in callers[f]}) = 1
    BY DEF EveryWaiterHasFlight
  <2>1. configFlight \in Callers /\ c \in callers[configFlight]
    BY <1>1 DEF FlightInv, WaitersAreCallers
  <2>2. Open(configFlight)
    BY <1>1, <2>1 DEF FlightInv, FlightHistory, Open, ConfigTypeOK
  <2>3. {f \in Callers : Open(f) /\ c \in callers[f]} = {configFlight}
    BY <1>1, <2>1, <2>2 DEF FlightInv, OneOpenFlight
  <2> QED BY <2>3, FS_Singleton
<1>2. FlightInv => FlightsAreShared
  BY <1>1 DEF FlightInv, FlightsAreShared
<1> QED BY <1>2, FlightInvHolds, PTL

\* Every caller is logged with exactly one terminal outcome, whatever the order
\* of 'close', the end of the flight and the caller's own arrival (finish, closed).
THEOREM OutcomeTheorem == ConfigSpec => []OneOutcome
<1>1. FlightInv => OneOutcome BY DEF FlightInv
<1> QED BY <1>1, FlightInvHolds, PTL

\* A caller that stays is never told that it left: only the gateway ends its
\* wait (closed).
THEOREM NeverCancelledTheorem == ConfigSpec => OthersNeverCancel
<1> DEFINE Told(c) == callerStage[c] = "waiting" /\ callerStage'[c] = "done" =>
                         reply'[c] \in {"200", "other", "502"} \/ destroyed[c]
<1>1. ASSUME FlightInv, [ConfigNext]_configVars, NEW c \in Callers PROVE Told(c)
  <2> USE <1>1 DEF FlightInv, ConfigTypeOK
  <2>1. ASSUME NEW d \in Callers, ServeDirectly(d) PROVE Told(c)
    BY <2>1 DEF ServeDirectly, Outcome
  <2>2. ASSUME NEW d \in Callers, Join(d) PROVE Told(c)
    BY <2>2 DEF Join, Outcome
  <2>3. ASSUME NEW d \in Callers, Depart(d) PROVE Told(c)
    BY <2>3 DEF Depart, Outcome
  <2>4. ASSUME NEW d \in Callers, CallerDisconnects(d) PROVE Told(c)
    BY <2>4 DEF CallerDisconnects
  <2>5. ASSUME NEW f \in Callers, GatewayAnswers(f) PROVE Told(c)
    BY <2>5 DEF GatewayAnswers, Outcome
  <2>6. ASSUME NEW f \in Callers, GatewayTimeout(f) \/ CacheExpires PROVE Told(c)
    BY <2>6 DEF GatewayTimeout, CacheExpires, caller
  <2>7. ASSUME NEW f \in Callers, GatewayFails(f) PROVE Told(c)
    BY <2>7 DEF GatewayFails, Outcome
  <2>8. ASSUME NEW d \in Callers, NEW f \in Callers, Closed(d, f) PROVE Told(c)
    BY <2>8 DEF Closed, LastCaller, Outcome, CloseFollowsDisconnect
  <2>9. CASE UNCHANGED configVars
    BY <2>9 DEF configVars, caller
  <2> QED
    BY <2>1, <2>2, <2>3, <2>4, <2>5, <2>6, <2>7, <2>8, <2>9 DEF ConfigNext
<1>2. FlightInv /\ [ConfigNext]_configVars => [\A c \in Callers : Told(c)]_configVars
  BY <1>1
<1> QED BY <1>2, FlightInvHolds, PTL DEF ConfigSpec, OthersNeverCancel

-----------------------------------------------------------------------------
(* The rate limiter.                                                       *)

\* Of the first m times of p, those from t on, and those from t to u.
Since(p, m, t) == {i \in 1 .. m : p[i] >= t}
Between(p, m, t, u) == {i \in 1 .. m : p[i] \in t .. u}

\* How many of the passes p were before the window of the bucket b: a bucket
\* that counts beyond the budget counts refusals.
Counts(b) == IF b.count <= Rpm THEN b.count ELSE Rpm
Old(p, b) == Len(p) - Counts(b)

\* n budgets.
Budget(n) == n * Rpm

\* What a client whose bucket was dropped d times may have had when it has no
\* bucket: a budget less than with one.
WithoutBucket(p, d) ==
    \A t \in Int : Cardinality(Between(p, Len(p), t, t + Window - 1)) <= Budget(1 + d)

\* And with the bucket b at the time T.  The passes that b counts are those of
\* its window; the earlier ones are within the bound by themselves, and those
\* less than a window before this one leave a budget for it.
WithBucket(p, d, b, T) ==
    /\ b \in [count : Nat \ {0}, windowStart : 0 .. T]
    /\ Old(p, b) \in Nat
    /\ \A i \in 1 .. Old(p, b) : p[i] <= b.windowStart
    /\ \A i \in Old(p, b) + 1 .. Len(p) : p[i] >= b.windowStart
    /\ \A t \in Int : Cardinality(Between(p, Old(p, b), t, t + Window - 1)) <= Budget(2 + d)
    /\ \A t \in Int : t > b.windowStart - Window =>
          Cardinality(Since(p, Old(p, b), t)) <= Budget(1 + d)

ClientInv(c) ==
    /\ \A i \in 1 .. Len(passed[c]) : passed[c][i] <= now
    /\ IF Contains(order, c) THEN WithBucket(passed[c], dropped[c], rateBuckets[c], now)
       ELSE WithoutBucket(passed[c], dropped[c])

LimiterInv == LimiterTypeOK /\ (Rpm > 0 => \A c \in Addresses : ClientInv(c))

\* Budgets add up.
LEMMA Budgets ==
    ASSUME NEW d \in Nat
    PROVE  /\ Budget(1 + d) \in Nat /\ Budget(2 + d) = Budget(1 + d) + Rpm
           /\ Budget(1 + (d + 1)) = Budget(2 + d) /\ Rpm <= Budget(1 + d)
<1>1. Rpm \in Nat /\ d * Rpm \in Nat
  BY LimitsAssumption
<1>2. Budget(1 + d) = d * Rpm + Rpm /\ Budget(2 + d) = d * Rpm + Rpm + Rpm
  BY <1>1 DEF Budget
<1>3. 1 + (d + 1) = 2 + d
  OBVIOUS
<1> QED
  BY <1>1, <1>2, <1>3

\* Sets of passes are finite and are counted in natural numbers; a part is no
\* larger than the whole.
LEMMA PassesCount ==
    ASSUME NEW m \in Nat, NEW A \in SUBSET (1 .. m), NEW B \in SUBSET A
    PROVE  /\ IsFiniteSet(A) /\ IsFiniteSet(B)
           /\ Cardinality(A) \in Nat /\ Cardinality(B) \in Nat
           /\ Cardinality(B) <= Cardinality(A) /\ Cardinality(A) <= m
<1>1. IsFiniteSet(1 .. m) /\ Cardinality(1 .. m) = m
  BY FS_Interval
<1>2. IsFiniteSet(A) /\ Cardinality(A) <= Cardinality(1 .. m)
  BY <1>1, FS_Subset
<1>3. IsFiniteSet(B) /\ Cardinality(B) <= Cardinality(A)
  BY <1>2, FS_Subset
<1> QED
  BY <1>1, <1>2, <1>3, FS_CardinalityType

\* The passes after the first m of n are at most n - m.
LEMMA LastPasses ==
    ASSUME NEW m \in Nat, NEW n \in Nat, m <= n, NEW A \in SUBSET (1 .. n)
    PROVE  /\ Cardinality(A) <= Cardinality(A \cap (1 .. m)) + (n - m)
           /\ A \cap (1 .. m) = {} => Cardinality(A) <= n - m
<1> DEFINE P == A \cap (1 .. m)
           Q == A \cap (m + 1 .. n)
<1>1. IsFiniteSet(P) /\ Cardinality(P) \in Nat
  BY PassesCount
<1>2. IsFiniteSet(m + 1 .. n) /\ Cardinality(m + 1 .. n) = n - m
  <2>1. CASE m < n
    BY <2>1, FS_Interval
  <2>2. CASE m = n
    <3>1. m + 1 .. n = {}
      BY <2>2
    <3> QED
      BY <2>2, <3>1, FS_EmptySet
  <2> QED
    BY <2>1, <2>2
<1>3. IsFiniteSet(Q) /\ Cardinality(Q) <= n - m /\ Cardinality(Q) \in Nat
  <2>1. Q \subseteq m + 1 .. n
    OBVIOUS
  <2>2. IsFiniteSet(Q) /\ Cardinality(Q) <= Cardinality(m + 1 .. n)
    BY <1>2, <2>1, FS_Subset
  <2> QED
    BY <1>2, <2>2, FS_CardinalityType
<1>4. A = P \cup Q /\ P \cap Q = {}
  <2>1. \A i \in A : i \in 1 .. m \/ i \in m + 1 .. n
    OBVIOUS
  <2>2. \A i : ~(i \in 1 .. m /\ i \in m + 1 .. n)
    OBVIOUS
  <2> QED
    BY <2>1, <2>2
<1> HIDE DEF P, Q
<1>5. Cardinality(P \cup Q) = Cardinality(P) + Cardinality(Q) - Cardinality(P \cap Q)
  BY <1>1, <1>3, FS_Union
<1>6. Cardinality(P \cap Q) = 0
  BY <1>4, FS_EmptySet
<1>7. Cardinality(A) = Cardinality(P) + Cardinality(Q)
  BY <1>1, <1>3, <1>4, <1>5, <1>6
<1>8. P = {} => Cardinality(P) = 0
  BY FS_EmptySet
<1> QED
  BY <1>1, <1>3, <1>7, <1>8 DEF P

\* The window of a bucket counts at most a budget of the passes.
LEMMA BucketParts ==
    ASSUME NEW T \in Nat, NEW p \in Seq(Nat), NEW d, NEW b, WithBucket(p, d, b, T)
    PROVE  /\ Len(p) \in Nat /\ Old(p, b) \in Nat /\ Old(p, b) <= Len(p)
           /\ Len(p) - Old(p, b) <= Rpm /\ b.windowStart \in Nat
           /\ Rpm \in Nat /\ Window \in Nat /\ \A i \in 1 .. Len(p) : p[i] \in Nat
<1>1. b.count \in Nat /\ b.windowStart \in Nat /\ Old(p, b) \in Nat
  BY DEF WithBucket
<1>2. Rpm \in Nat /\ Window \in Nat /\ Len(p) \in Nat /\ \A i \in 1 .. Len(p) : p[i] \in Nat
  BY LimitsAssumption, ElementOfSeq
<1>3. Counts(b) \in 0 .. Rpm
  BY <1>1, <1>2 DEF Counts
<1> QED
  BY <1>1, <1>2, <1>3 DEF Old

\* A bucket holds its client to the bound.
LEMMA OpenBound ==
    ASSUME NEW T \in Nat, NEW p \in Seq(Nat), NEW d \in Nat, NEW b, WithBucket(p, d, b, T)
    PROVE  \A t \in Int : Cardinality(Between(p, Len(p), t, t + Window - 1)) <= Budget(2 + d)
<1> SUFFICES ASSUME NEW t \in Int
             PROVE  Cardinality(Between(p, Len(p), t, t + Window - 1)) <= Budget(2 + d)
  OBVIOUS
<1> DEFINE m == Old(p, b)
           n == Len(p)
           A == Between(p, n, t, t + Window - 1)
<1>1. /\ n \in Nat /\ m \in Nat /\ m <= n /\ n - m <= Rpm /\ b.windowStart \in Nat
      /\ Rpm \in Nat /\ Window \in Nat /\ \A i \in 1 .. n : p[i] \in Nat
  BY BucketParts
<1>2. /\ \A i \in m + 1 .. n : p[i] >= b.windowStart
      /\ Cardinality(Between(p, m, t, t + Window - 1)) <= Budget(2 + d)
      /\ t > b.windowStart - Window => Cardinality(Since(p, m, t)) <= Budget(1 + d)
  BY DEF WithBucket
<1>3. Budget(1 + d) \in Nat /\ Budget(2 + d) = Budget(1 + d) + Rpm
  BY Budgets
<1> HIDE DEF m, n
<1>4. A \in SUBSET (1 .. n) /\ A \cap (1 .. m) = Between(p, m, t, t + Window - 1)
  BY <1>1 DEF Between
<1>5. CASE t > b.windowStart - Window
  <2>1. A \cap (1 .. m) \subseteq Since(p, m, t) /\ Since(p, m, t) \in SUBSET (1 .. m)
    BY <1>1 DEF Between, Since
  <2>2. /\ Cardinality(A \cap (1 .. m)) <= Cardinality(Since(p, m, t))
        /\ Cardinality(A \cap (1 .. m)) \in Nat /\ Cardinality(Since(p, m, t)) \in Nat
    BY <1>1, <2>1, PassesCount
  <2>3. Cardinality(A) <= Cardinality(A \cap (1 .. m)) + (n - m) /\ Cardinality(A) \in Nat
    BY <1>1, <1>4, LastPasses, PassesCount
  <2> QED
    BY <1>1, <1>2, <1>3, <1>5, <2>2, <2>3 DEF n
<1>6. CASE ~(t > b.windowStart - Window)
  <2>1. \A i \in m + 1 .. n : p[i] \notin t .. t + Window - 1
    BY <1>1, <1>2, <1>6
  <2>2. A = Between(p, m, t, t + Window - 1)
    BY <1>1, <2>1 DEF Between
  <2> QED
    BY <1>2, <2>2 DEF n
<1> QED
  BY <1>5, <1>6

\* What passed before keeps its place.
LEMMA AppendKeeps ==
    ASSUME NEW p \in Seq(Nat), NEW T \in Nat, NEW m \in Nat, m <= Len(p)
    PROVE  /\ Append(p, T) \in Seq(Nat) /\ Len(Append(p, T)) = Len(p) + 1
           /\ Append(p, T)[Len(p) + 1] = T
           /\ \A i \in 1 .. Len(p) : Append(p, T)[i] = p[i]
           /\ \A t, u : Between(Append(p, T), m, t, u) = Between(p, m, t, u)
           /\ \A t : Since(Append(p, T), m, t) = Since(p, m, t)
<1>1. /\ Append(p, T) \in Seq(Nat) /\ Len(Append(p, T)) = Len(p) + 1
      /\ Append(p, T)[Len(p) + 1] = T /\ Len(p) \in Nat
      /\ \A i \in 1 .. Len(p) : Append(p, T)[i] = p[i]
  BY AppendProperties, LenProperties
<1>2. \A i \in 1 .. m : Append(p, T)[i] = p[i]
  BY <1>1
<1> QED
  BY <1>1, <1>2 DEF Between, Since

\* A request in a new window: what passed before is within the bound, and the
\* last window of it within one budget less.
LEMMA Opens ==
    ASSUME NEW T \in Nat, NEW p \in Seq(Nat), NEW d \in Nat, Rpm > 0,
           \A i \in 1 .. Len(p) : p[i] <= T,
           \A t \in Int : Cardinality(Between(p, Len(p), t, t + Window - 1)) <= Budget(2 + d),
           \A t \in Int : t > T - Window => Cardinality(Since(p, Len(p), t)) <= Budget(1 + d)
    PROVE  WithBucket(Append(p, T), d, [count |-> 1, windowStart |-> T], T)
<1> DEFINE b == [count |-> 1, windowStart |-> T]
           q == Append(p, T)
<1>1. b \in [count : Nat \ {0}, windowStart : 0 .. T] /\ b.count = 1 /\ b.windowStart = T
  OBVIOUS
<1>2. Len(p) \in Nat /\ Rpm \in Nat
  BY LimitsAssumption
<1>3. /\ Len(q) = Len(p) + 1 /\ q[Len(p) + 1] = T
      /\ \A i \in 1 .. Len(p) : q[i] = p[i]
      /\ \A t, u : Between(q, Len(p), t, u) = Between(p, Len(p), t, u)
      /\ \A t : Since(q, Len(p), t) = Since(p, Len(p), t)
  BY <1>2, AppendKeeps
<1> HIDE DEF q, b
<1>4. Old(q, b) = Len(p)
  BY <1>1, <1>2, <1>3 DEF Old, Counts
<1>5. /\ \A i \in 1 .. Old(q, b) : q[i] <= b.windowStart
      /\ \A i \in Old(q, b) + 1 .. Len(q) : q[i] >= b.windowStart
  BY <1>1, <1>2, <1>3, <1>4
<1>6. /\ \A t \in Int : Cardinality(Between(q, Old(q, b), t, t + Window - 1)) <= Budget(2 + d)
      /\ \A t \in Int : t > b.windowStart - Window =>
            Cardinality(Since(q, Old(q, b), t)) <= Budget(1 + d)
  BY <1>1, <1>3, <1>4
<1>7. WithBucket(q, d, b, T)
  BY <1>1, <1>2, <1>4, <1>5, <1>6 DEF WithBucket
<1> QED
  BY <1>7 DEF q, b

\* A first request without a bucket.
LEMMA OpensFirst ==
    ASSUME NEW T \in Nat, NEW p \in Seq(Nat), NEW d \in Nat, Rpm > 0,
           \A i \in 1 .. Len(p) : p[i] <= T, WithoutBucket(p, d)
    PROVE  WithBucket(Append(p, T), d, [count |-> 1, windowStart |-> T], T)
<1>1. Budget(1 + d) \in Nat /\ Budget(2 + d) = Budget(1 + d) + Rpm /\ Rpm \in Nat
  BY Budgets, LimitsAssumption
<1>2. Len(p) \in Nat /\ Window \in Nat /\ \A i \in 1 .. Len(p) : p[i] \in Nat
  BY LimitsAssumption, ElementOfSeq
<1>3. ASSUME NEW t \in Int
      PROVE  Cardinality(Between(p, Len(p), t, t + Window - 1)) <= Budget(2 + d)
  <2>1. Cardinality(Between(p, Len(p), t, t + Window - 1)) <= Budget(1 + d)
    BY DEF WithoutBucket
  <2>2. Cardinality(Between(p, Len(p), t, t + Window - 1)) \in Nat
    BY <1>2, PassesCount DEF Between
  <2> QED
    BY <1>1, <2>1, <2>2
<1>4. ASSUME NEW t \in Int, t > T - Window
      PROVE  Cardinality(Since(p, Len(p), t)) <= Budget(1 + d)
  <2>1. \A i \in 1 .. Len(p) : p[i] >= t <=> p[i] \in t .. t + Window - 1
    BY <1>2, <1>4
  <2>2. Since(p, Len(p), t) = Between(p, Len(p), t, t + Window - 1)
    BY <2>1 DEF Since, Between
  <2> QED
    BY <2>2 DEF WithoutBucket
<1> QED
  BY <1>3, <1>4, Opens

\* A first request in the window after the one that the bucket counts.
LEMMA OpensNext ==
    ASSUME NEW T \in Nat, NEW p \in Seq(Nat), NEW d \in Nat, Rpm > 0, NEW b,
           \A i \in 1 .. Len(p) : p[i] <= T, WithBucket(p, d, b, T),
           T - b.windowStart >= Window
    PROVE  WithBucket(Append(p, T), d, [count |-> 1, windowStart |-> T], T)
<1> DEFINE m == Old(p, b)
           n == Len(p)
<1>1. /\ n \in Nat /\ m \in Nat /\ m <= n /\ n - m <= Rpm /\ b.windowStart \in Nat
      /\ Rpm \in Nat /\ Window \in Nat /\ \A i \in 1 .. n : p[i] \in Nat
  BY BucketParts
<1>2. \A t \in Int : Cardinality(Between(p, n, t, t + Window - 1)) <= Budget(2 + d)
  BY OpenBound
<1>3. ASSUME NEW t \in Int, t > T - Window
      PROVE  Cardinality(Since(p, n, t)) <= Budget(1 + d)
  <2>1. \A i \in 1 .. m : ~(p[i] >= t)
    <3>1. \A i \in 1 .. m : p[i] <= b.windowStart
      BY DEF WithBucket
    <3>2. \A i \in 1 .. m : i \in 1 .. n /\ p[i] \in Nat
      BY <1>1
    <3> QED
      BY <1>1, <1>3, <3>1, <3>2
  <2> HIDE DEF m, n
  <2>2. Since(p, n, t) \in SUBSET (1 .. n) /\ Since(p, n, t) \cap (1 .. m) = {}
    BY <2>1 DEF Since
  <2>3. Cardinality(Since(p, n, t)) <= n - m /\ Cardinality(Since(p, n, t)) \in Nat
    BY <1>1, <2>2, LastPasses, PassesCount
  <2>4. Budget(1 + d) \in Nat /\ Rpm <= Budget(1 + d)
    BY Budgets
  <2> QED
    BY <1>1, <2>3, <2>4
<1> QED
  BY <1>2, <1>3, Opens

\* A further request in the window, within the budget: it passes.
LEMMA CountsPass ==
    ASSUME NEW T \in Nat, NEW p \in Seq(Nat), NEW d \in Nat, Rpm > 0, NEW b,
           WithBucket(p, d, b, T), b.count + 1 <= Rpm
    PROVE  WithBucket(Append(p, T), d, [b EXCEPT !.count = b.count + 1], T)
<1> DEFINE e == [b EXCEPT !.count = b.count + 1]
           q == Append(p, T)
           m == Old(p, b)
<1>1. /\ Len(p) \in Nat /\ m \in Nat /\ m <= Len(p) /\ b.windowStart \in Nat
      /\ Rpm \in Nat /\ Window \in Nat
  BY BucketParts
<1>2. /\ b \in [count : Nat \ {0}, windowStart : 0 .. T]
      /\ \A i \in 1 .. m : p[i] <= b.windowStart
      /\ \A i \in m + 1 .. Len(p) : p[i] >= b.windowStart
      /\ \A t \in Int : Cardinality(Between(p, m, t, t + Window - 1)) <= Budget(2 + d)
      /\ \A t \in Int : t > b.windowStart - Window =>
            Cardinality(Since(p, m, t)) <= Budget(1 + d)
  BY DEF WithBucket
<1>3. /\ e \in [count : Nat \ {0}, windowStart : 0 .. T] /\ e.windowStart = b.windowStart
      /\ e.count = b.count + 1 /\ b.windowStart <= T /\ b.count \in Nat
  BY <1>2
<1>4. /\ Len(q) = Len(p) + 1 /\ q[Len(p) + 1] = T
      /\ \A i \in 1 .. Len(p) : q[i] = p[i]
      /\ \A t, u : Between(q, m, t, u) = Between(p, m, t, u)
      /\ \A t : Since(q, m, t) = Since(p, m, t)
  BY <1>1, AppendKeeps
<1> HIDE DEF e, q
<1>5. Old(q, e) = m
  <2>1. Counts(b) = b.count /\ Counts(e) = b.count + 1
    BY <1>1, <1>3 DEF Counts
  <2> QED
    BY <1>1, <1>3, <1>4, <2>1 DEF Old
<1> HIDE DEF m
<1>6. \A i \in 1 .. m : q[i] <= e.windowStart
  <2>1. \A i \in 1 .. m : i \in 1 .. Len(p)
    BY <1>1
  <2> QED
    BY <1>2, <1>3, <1>4, <2>1
<1>7. \A i \in m + 1 .. Len(q) : q[i] >= e.windowStart
  <2> SUFFICES ASSUME NEW i \in m + 1 .. Len(q) PROVE q[i] >= e.windowStart
    OBVIOUS
  <2>1. CASE i = Len(p) + 1
    BY <1>1, <1>3, <1>4, <2>1
  <2>2. CASE i # Len(p) + 1
    <3>1. i \in m + 1 .. Len(p) /\ i \in 1 .. Len(p)
      BY <1>1, <1>4, <2>2
    <3> QED
      BY <1>2, <1>3, <1>4, <3>1
  <2> QED
    BY <2>1, <2>2
<1>8. WithBucket(q, d, e, T)
  BY <1>1, <1>2, <1>3, <1>4, <1>5, <1>6, <1>7 DEF WithBucket
<1> QED
  BY <1>8 DEF q, e

\* A further request in the window, beyond the budget: it is refused, and the
\* window has had its budget.
LEMMA CountsRefusal ==
    ASSUME NEW T \in Nat, NEW p \in Seq(Nat), NEW d \in Nat, Rpm > 0, NEW b,
           WithBucket(p, d, b, T), b.count + 1 > Rpm
    PROVE  /\ WithBucket(p, d, [b EXCEPT !.count = b.count + 1], T)
           /\ Old(p, b) = Len(p) - Rpm
<1> DEFINE e == [b EXCEPT !.count = b.count + 1]
<1>1. /\ Len(p) \in Nat /\ b.windowStart \in Nat
      /\ Rpm \in Nat /\ Window \in Nat
  BY BucketParts
<1>2. b \in [count : Nat \ {0}, windowStart : 0 .. T]
  BY DEF WithBucket
<1>3. /\ e \in [count : Nat \ {0}, windowStart : 0 .. T] /\ e.windowStart = b.windowStart
      /\ e.count = b.count + 1 /\ b.count \in Nat
  BY <1>2
<1> HIDE DEF e
<1>4. Old(p, e) = Old(p, b) /\ Old(p, b) = Len(p) - Rpm
  BY <1>1, <1>3 DEF Old, Counts
<1>5. WithBucket(p, d, e, T)
  BY <1>3, <1>4 DEF WithBucket
<1> QED
  BY <1>4, <1>5 DEF e

\* A bucket is dropped, or never kept: the bound grows by one budget.
LEMMA Drops ==
    ASSUME NEW T \in Nat, NEW p \in Seq(Nat), NEW d \in Nat, Rpm > 0
    PROVE  /\ \A b : WithBucket(p, d, b, T) => WithoutBucket(p, d + 1)
           /\ WithoutBucket(p, d) => WithoutBucket(Append(p, T), d + 1)
<1>1. /\ Budget(1 + d) \in Nat /\ Budget(2 + d) = Budget(1 + d) + Rpm
      /\ Budget(1 + (d + 1)) = Budget(2 + d) /\ Rpm \in Nat
  BY Budgets, LimitsAssumption
<1>2. ASSUME NEW b, WithBucket(p, d, b, T) PROVE WithoutBucket(p, d + 1)
  BY <1>1, <1>2, OpenBound DEF WithoutBucket
<1>3. ASSUME WithoutBucket(p, d), NEW t \in Int
      PROVE  Cardinality(Between(Append(p, T), Len(Append(p, T)), t, t + Window - 1))
               <= Budget(1 + (d + 1))
  <2> DEFINE A == Between(Append(p, T), Len(p) + 1, t, t + Window - 1)
             P == Between(p, Len(p), t, t + Window - 1)
  <2>1. /\ Len(p) \in Nat /\ Len(Append(p, T)) = Len(p) + 1
        /\ Between(Append(p, T), Len(p), t, t + Window - 1) = P
    BY AppendKeeps
  <2>2. A \in SUBSET (1 .. Len(p) + 1) /\ P \in SUBSET (1 .. Len(p))
    BY DEF Between
  <2>3. A \cap (1 .. Len(p)) = P
    BY <2>1 DEF Between
  <2>4. Cardinality(P) <= Budget(1 + d)
    BY <1>3 DEF WithoutBucket
  <2> HIDE DEF A, P
  <2>5. Cardinality(A) <= Cardinality(P) + 1 /\ Cardinality(A) \in Nat /\ Cardinality(P) \in Nat
    <3>1. /\ Len(p) + 1 \in Nat /\ Len(p) <= Len(p) + 1 /\ (Len(p) + 1) - Len(p) = 1
      BY <2>1
    <3> DEFINE n == Len(p) + 1
    <3>2. Cardinality(A) <= Cardinality(A \cap (1 .. Len(p))) + (n - Len(p))
      BY <2>1, <2>2, <3>1, LastPasses
    <3>3. Cardinality(A) \in Nat /\ Cardinality(P) \in Nat
      BY <2>1, <2>2, <3>1, PassesCount
    <3> QED
      BY <2>3, <3>1, <3>2, <3>3
  <2> QED
    BY <1>1, <2>1, <2>4, <2>5 DEF A
<1> QED
  BY <1>2, <1>3 DEF WithoutBucket

\* Whatever headers a client makes up, it is looked up under its own address
\* (177-188).
LEMMA KeyedByItself ==
    ASSUME NEW c \in Addresses, NEW k \in KeyedBy(c)
    PROVE  k = c
<1>1. PICK q \in Carries(c) : k = ClientIpKey(q)
  BY DEF KeyedBy
<1>2. CASE twoHops
  <2>1. q.trusted = c
    BY <1>2 DEF Carries
  <2> QED
    BY <1>1, <1>2, <2>1, AddressesAssumption DEF ClientIpKey
<1>3. CASE ~twoHops
  <2>1. q.xff = <<c>> \/ \E d \in Addresses : q.xff = <<d, c>>
    BY <1>3 DEF Carries
  <2>2. \A d : Last(<<c>>) = c /\ Last(<<d, c>>) = c
    BY DEF Last
  <2> QED
    BY <1>1, <1>3, <2>1, <2>2 DEF ClientIpKey
<1> QED
  BY <1>2, <1>3

\* The table stays within MaxKeys and lists a client once; a client that is
\* listed when it calls pushes nobody out, nor itself (203-208).
LEMMA KeysAfterCall ==
    ASSUME LimiterTypeOK, NEW c \in Addresses
    PROVE  /\ KeysAfter(c) \in Seq(Addresses) /\ Len(KeysAfter(c)) <= MaxKeys
           /\ IsInjective(KeysAfter(c))
           /\ \A d : Contains(KeysAfter(c), d) => d = c \/ Contains(order, d)
           /\ Contains(order, c) => KeysAfter(c) = order
<1>1. /\ order \in Seq(Addresses) /\ Len(order) <= MaxKeys /\ IsInjective(order)
      /\ Len(order) \in Nat /\ MaxKeys \in Nat
  BY LimitsAssumption DEF LimiterTypeOK
<1>2. CASE Contains(order, c)
  <2>1. KeysAfter(c) = order
    BY <1>1, <1>2 DEF KeysAfter
  <2> QED
    BY <1>1, <2>1
<1>3. CASE ~Contains(order, c)
  <2> DEFINE s == Append(order, c)
  <2>1. /\ s \in Seq(Addresses) /\ Len(s) = Len(order) + 1
        /\ \A i \in 1 .. Len(s) : s[i] = IF i <= Len(order) THEN order[i] ELSE c
    BY <1>1
  <2>2. KeysAfter(c) = IF Len(s) > MaxKeys THEN Tail(s) ELSE s
    BY <1>3 DEF KeysAfter
  <2> HIDE DEF s
  <2>3. \A i \in 1 .. Len(order) : order[i] # c
    BY <1>3 DEF Contains
  <2>4. IsInjective(s)
    <3>1. DOMAIN s = 1 .. Len(order) + 1 /\ DOMAIN order = 1 .. Len(order)
      BY <1>1, <2>1, LenProperties
    <3> SUFFICES ASSUME NEW i \in 1 .. Len(order) + 1, NEW j \in 1 .. Len(order) + 1, s[i] = s[j]
                 PROVE  i = j
      BY <3>1 DEF IsInjective
    <3>2. CASE i <= Len(order) /\ j <= Len(order)
      <4>1. i \in DOMAIN order /\ j \in DOMAIN order /\ order[i] = order[j]
        BY <1>1, <2>1, <3>1, <3>2
      <4> QED
        BY <1>1, <4>1 DEF IsInjective
    <3>3. CASE i = Len(order) + 1 \/ j = Len(order) + 1
      BY <1>1, <2>1, <2>3, <3>3
    <3> QED
      BY <1>1, <3>2, <3>3
  <2>5. \A i \in 1 .. Len(s) : s[i] = c \/ Contains(order, s[i])
    <3>1. \A i \in 1 .. Len(order) : Contains(order, order[i])
      BY DEF Contains
    <3>2. \A i \in 1 .. Len(s) : i <= Len(order) => i \in 1 .. Len(order)
      BY <1>1, <2>1
    <3> QED
      BY <2>1, <3>1, <3>2
  <2>6. CASE Len(s) > MaxKeys
    <3>1. /\ Tail(s) \in Seq(Addresses) /\ Len(Tail(s)) = Len(s) - 1
          /\ \A i \in 1 .. Len(Tail(s)) : Tail(s)[i] = s[i + 1]
      BY <1>1, <2>1, HeadTailProperties
    <3>2. IsInjective(Tail(s))
      BY <1>1, <2>1, <2>4, <3>1 DEF IsInjective
    <3>3. \A i \in 1 .. Len(Tail(s)) : Tail(s)[i] = c \/ Contains(order, Tail(s)[i])
      BY <1>1, <2>1, <2>5, <3>1
    <3>4. Len(Tail(s)) <= MaxKeys
      BY <1>1, <2>1, <3>1
    <3> QED
      BY <1>3, <2>2, <2>6, <3>1, <3>2, <3>3, <3>4 DEF Contains
  <2>7. CASE ~(Len(s) > MaxKeys)
    <3>1. Len(s) <= MaxKeys
      BY <1>1, <2>1, <2>7
    <3> QED
      BY <1>3, <2>1, <2>2, <2>4, <2>5, <2>7, <3>1 DEF Contains
  <2> QED
    BY <2>6, <2>7
<1> QED
  BY <1>2, <1>3

\* What a call of c does to the table and to the buckets.
LEMMA Touched ==
    ASSUME LimiterTypeOK, NEW c \in Addresses, Touch(c)
    PROVE  /\ order' \in Seq(Addresses) /\ Len(order') <= MaxKeys /\ IsInjective(order')
           /\ rateBuckets' \in [Addresses -> [count : Nat, windowStart : Nat]]
           /\ dropped' \in [Addresses -> Nat]
           /\ \A d \in Addresses : Contains(order', d) =>
                 /\ d = c \/ Contains(order, d)
                 /\ rateBuckets'[d] = IF d = c THEN Counted(c) ELSE rateBuckets[d]
                 /\ dropped'[d] = dropped[d]
           /\ \A d \in Addresses : ~Contains(order', d) =>
                 /\ d = c => ~Contains(order, c)
                 /\ dropped'[d] = IF d = c \/ Contains(order, d) THEN dropped[d] + 1 ELSE dropped[d]
<1>1. /\ KeysAfter(c) \in Seq(Addresses) /\ Len(KeysAfter(c)) <= MaxKeys
      /\ IsInjective(KeysAfter(c))
      /\ \A d : Contains(KeysAfter(c), d) => d = c \/ Contains(order, d)
      /\ Contains(order, c) => KeysAfter(c) = order
  BY KeysAfterCall
<1>2. order' = KeysAfter(c)
  BY DEF Touch
<1>3. /\ rateBuckets' = [d \in Addresses |->
                           IF ~Contains(order', d) THEN NoBucket
                           ELSE IF d = c THEN Counted(c) ELSE rateBuckets[d]]
      /\ dropped' = [d \in Addresses |->
                       IF (d = c \/ Contains(order, d)) /\ ~Contains(order', d)
                       THEN dropped[d] + 1 ELSE dropped[d]]
  BY <1>2 DEF Touch
<1>4. /\ rateBuckets \in [Addresses -> [count : Nat, windowStart : Nat]]
      /\ dropped \in [Addresses -> Nat] /\ now \in Nat
  BY DEF LimiterTypeOK
<1>5. /\ Counted(c) \in [count : Nat, windowStart : Nat]
      /\ NoBucket \in [count : Nat, windowStart : Nat]
  BY <1>4 DEF Counted, NoBucket
<1>6. /\ rateBuckets' \in [Addresses -> [count : Nat, windowStart : Nat]]
      /\ dropped' \in [Addresses -> Nat]
  BY <1>3, <1>4, <1>5
<1>7. Contains(order, c) => Contains(order', c)
  BY <1>1, <1>2
<1> QED
  BY <1>1, <1>2, <1>3, <1>6, <1>7

\* The types of what is known of a client.
LEMMA ClientTypes ==
    ASSUME LimiterTypeOK, NEW c \in Addresses
    PROVE  /\ passed[c] \in Seq(Nat) /\ dropped[c] \in Nat /\ now \in Nat
           /\ rateBuckets[c] \in [count : Nat, windowStart : Nat]
  BY DEF LimiterTypeOK

\* A call of c costs another client nothing but, at most, its bucket.
LEMMA OthersKeep ==
    ASSUME LimiterInv, Rpm > 0, NEW c \in Addresses, NEW d \in Addresses, d # c, Touch(c),
           passed'[d] = passed[d], now' = now
    PROVE  ClientInv(d)'
<1>1. LimiterTypeOK /\ ClientInv(d)
  BY DEF LimiterInv
<1>2. /\ Contains(order', d) =>
           Contains(order, d) /\ rateBuckets'[d] = rateBuckets[d] /\ dropped'[d] = dropped[d]
      /\ ~Contains(order', d) =>
           dropped'[d] = IF Contains(order, d) THEN dropped[d] + 1 ELSE dropped[d]
  BY <1>1, Touched
<1>3. \A i \in 1 .. Len(passed'[d]) : passed'[d][i] <= now'
  BY <1>1 DEF ClientInv
<1>4. CASE Contains(order', d)
  BY <1>1, <1>2, <1>3, <1>4 DEF ClientInv
<1>5. CASE ~Contains(order', d)
  <2>1. CASE Contains(order, d)
    <3>1. WithBucket(passed[d], dropped[d], rateBuckets[d], now)
      BY <1>1, <2>1 DEF ClientInv
    <3>2. passed[d] \in Seq(Nat) /\ dropped[d] \in Nat /\ now \in Nat
      BY <1>1, ClientTypes
    <3>3. WithoutBucket(passed[d], dropped[d] + 1)
      BY <3>1, <3>2, Drops
    <3> QED
      BY <1>2, <1>3, <1>5, <2>1, <3>3 DEF ClientInv
  <2>2. CASE ~Contains(order, d)
    BY <1>1, <1>2, <1>3, <1>5, <2>2 DEF ClientInv
  <2> QED
    BY <2>1, <2>2
<1> QED
  BY <1>4, <1>5

\* A request that passes (197-209).
LEMMA CallerPasses ==
    ASSUME LimiterInv, Rpm > 0, NEW c \in Addresses, ~Over(c), Touch(c),
           passed' = [passed EXCEPT ![c] = Append(passed[c], now)], now' = now
    PROVE  ClientInv(c)'
<1> DEFINE p == passed[c]
           d == dropped[c]
           b == rateBuckets[c]
<1>1. LimiterTypeOK /\ ClientInv(c)
  BY DEF LimiterInv
<1>2. /\ p \in Seq(Nat) /\ d \in Nat /\ now \in Nat
      /\ b.count \in Nat /\ b.windowStart \in Nat /\ Rpm \in Nat /\ Window \in Nat
  BY <1>1, ClientTypes, LimitsAssumption
<1>3. passed'[c] = Append(p, now)
  BY <1>1 DEF LimiterTypeOK
<1>4. /\ \A i \in 1 .. Len(p) : p[i] <= now
      /\ Contains(order, c) => WithBucket(p, d, b, now)
      /\ ~Contains(order, c) => WithoutBucket(p, d)
  BY <1>1 DEF ClientInv
<1>5. /\ Contains(order', c) => rateBuckets'[c] = Counted(c) /\ dropped'[c] = d
      /\ ~Contains(order', c) => ~Contains(order, c) /\ dropped'[c] = d + 1
  BY <1>1, Touched
<1>6. \A i \in 1 .. Len(passed'[c]) : passed'[c][i] <= now'
  <2>1. /\ Len(passed'[c]) = Len(p) + 1 /\ passed'[c][Len(p) + 1] = now
        /\ \A i \in 1 .. Len(p) : passed'[c][i] = p[i]
        /\ Len(p) \in Nat
    BY <1>2, <1>3, AppendProperties, LenProperties
  <2> QED
    BY <1>2, <1>4, <2>1
<1> HIDE DEF p, d, b
<1>7. CASE ~Contains(order', c)
  <2>1. WithoutBucket(Append(p, now), d + 1)
    BY <1>2, <1>4, <1>5, <1>7, Drops
  <2> QED
    BY <1>3, <1>5, <1>6, <1>7, <2>1 DEF ClientInv
<1>8. CASE Contains(order', c)
  <2>1. WithBucket(Append(p, now), d, Counted(c), now)
    <3>1. CASE ~Contains(order, c)
      <4>1. Counted(c) = [count |-> 1, windowStart |-> now]
        BY <3>1 DEF Counted, NewWindow
      <4> QED
        BY <1>2, <1>4, <3>1, <4>1, OpensFirst
    <3>2. CASE Contains(order, c) /\ now - b.windowStart >= Window
      <4>1. Counted(c) = [count |-> 1, windowStart |-> now]
        BY <3>2 DEF Counted, NewWindow, b
      <4> QED
        BY <1>2, <1>4, <3>2, <4>1, OpensNext
    <3>3. CASE Contains(order, c) /\ ~(now - b.windowStart >= Window)
      <4>1. Counted(c) = [b EXCEPT !.count = b.count + 1]
        BY <3>3 DEF Counted, NewWindow, b
      <4>2. Counted(c).count = b.count + 1
        BY <1>1, <4>1, ClientTypes DEF b
      <4>3. b.count + 1 <= Rpm
        BY <1>2, <4>2 DEF Over
      <4> QED
        BY <1>2, <1>4, <3>3, <4>1, <4>3, CountsPass
    <3> QED
      BY <3>1, <3>2, <3>3
  <2> QED
    BY <1>3, <1>5, <1>6, <1>8, <2>1 DEF ClientInv
<1> QED
  BY <1>7, <1>8

\* A request that is refused is one of a window that has had its budget, and
\* the bucket goes on counting (197-209).
LEMMA CallerRefused ==
    ASSUME LimiterInv, Rpm > 0, NEW c \in Addresses, Over(c)
    PROVE  /\ Contains(order, c) /\ now - rateBuckets[c].windowStart < Window
           /\ WithBucket(passed[c], dropped[c], rateBuckets[c], now)
           /\ WithBucket(passed[c], dropped[c], Counted(c), now)
           /\ Old(passed[c], rateBuckets[c]) = Len(passed[c]) - Rpm
<1> DEFINE b == rateBuckets[c]
           p == passed[c]
           d == dropped[c]
<1>1. LimiterTypeOK /\ ClientInv(c)
  BY DEF LimiterInv
<1>2. /\ p \in Seq(Nat) /\ d \in Nat /\ now \in Nat
      /\ b.count \in Nat /\ b.windowStart \in Nat /\ Rpm \in Nat /\ Window \in Nat
  BY <1>1, ClientTypes, LimitsAssumption
<1>3. ~NewWindow(c)
  BY <1>2 DEF Over, Counted
<1>4. Contains(order, c) /\ now - b.windowStart < Window
  BY <1>2, <1>3 DEF NewWindow
<1>5. WithBucket(p, d, b, now)
  BY <1>1, <1>4 DEF ClientInv
<1>6. Counted(c) = [b EXCEPT !.count = b.count + 1]
  BY <1>3 DEF Counted
<1>7. Counted(c).count = b.count + 1
  BY <1>1, <1>6, ClientTypes
<1>8. b.count + 1 > Rpm
  BY <1>7 DEF Over
<1> HIDE DEF p, d, b
<1>9. WithBucket(p, d, [b EXCEPT !.count = b.count + 1], now) /\ Old(p, b) = Len(p) - Rpm
  BY <1>2, <1>5, <1>8, CountsRefusal
<1> QED
  BY <1>4, <1>5, <1>6, <1>9 DEF p, d, b

LEMMA LimiterInitInv == LimiterInit => LimiterInv
<1> SUFFICES ASSUME LimiterInit PROVE LimiterInv
  OBVIOUS
<1>1. LimiterTypeOK
  BY LimitsAssumption, BoundsAssumption DEF LimiterInit, LimiterTypeOK, NoBucket, IsInjective
<1>2. ASSUME NEW c \in Addresses PROVE ClientInv(c)
  <2>1. passed[c] = <<>> /\ dropped[c] = 0 /\ ~Contains(order, c)
    BY DEF LimiterInit, Contains
  <2>2. WithoutBucket(<<>>, 0)
    <3>1. \A t, u : Between(<<>>, 0, t, u) = {}
      BY DEF Between
    <3>2. Budget(1 + 0) \in Nat
      BY Budgets
    <3>3. Len(<<>>) = 0 /\ Cardinality({}) = 0
      BY FS_EmptySet
    <3>4. \A t : Cardinality(Between(<<>>, Len(<<>>), t, t + Window - 1)) = 0
      BY <3>1, <3>3
    <3>5. 0 <= Budget(1 + 0)
      BY <3>2
    <3> QED
      BY <3>4, <3>5 DEF WithoutBucket
  <2> QED
    BY <2>1, <2>2 DEF ClientInv
<1> QED
  BY <1>1, <1>2 DEF LimiterInv

LEMMA LimiterNextInv == LimiterInv /\ [LimiterNext]_limiterVars => LimiterInv'
<1> SUFFICES ASSUME LimiterInv, [LimiterNext]_limiterVars PROVE LimiterInv'
  OBVIOUS
<1>1. LimiterTypeOK /\ Rpm \in Nat /\ MaxRequests \in Nat
  BY LimitsAssumption, BoundsAssumption DEF LimiterInv
<1>2. ASSUME NEW c \in Addresses, Pass(c) PROVE LimiterInv'
  <2>1. /\ requests' = requests + 1 /\ requests < MaxRequests /\ UNCHANGED <<now, twoHops>>
        /\ passed' = [passed EXCEPT ![c] = Append(passed[c], now)]
    BY <1>2 DEF Pass
  <2>2. requests' \in 0 .. MaxRequests /\ passed' \in [Addresses -> Seq(Nat)]
    BY <1>1, <2>1 DEF LimiterTypeOK
  <2>3. CASE Rpm = 0
    <3>1. UNCHANGED <<order, rateBuckets, dropped>>
      BY <1>2, <2>3 DEF Pass
    <3>2. LimiterTypeOK'
      BY <1>1, <2>1, <2>2, <3>1 DEF LimiterTypeOK
    <3> QED
      BY <2>3, <3>2 DEF LimiterInv
  <2>4. CASE Rpm # 0
    <3>1. ~Over(c) /\ Touch(c)
      BY <1>2, <2>4, KeyedByItself DEF Pass
    <3>2. LimiterTypeOK'
      BY <1>1, <2>1, <2>2, <3>1, Touched DEF LimiterTypeOK
    <3>3. ClientInv(c)'
      <4>1. Rpm > 0 /\ now' = now
        BY <1>1, <2>1, <2>4
      <4> QED
        BY <2>1, <3>1, <4>1, CallerPasses
    <3>4. ASSUME NEW d \in Addresses, d # c PROVE ClientInv(d)'
      <4>1. passed'[d] = passed[d]
        BY <1>1, <2>1, <3>4 DEF LimiterTypeOK
      <4> QED
        BY <1>1, <2>1, <2>4, <3>1, <3>4, <4>1, OthersKeep
    <3> QED
      BY <3>2, <3>3, <3>4 DEF LimiterInv
  <2> QED
    BY <2>3, <2>4
<1>3. ASSUME NEW c \in Addresses, Refuse(c) PROVE LimiterInv'
  <2>1. /\ requests' = requests + 1 /\ requests < MaxRequests /\ Rpm > 0
        /\ UNCHANGED <<now, twoHops, passed>> /\ Over(c) /\ Touch(c)
    BY <1>3, KeyedByItself DEF Refuse
  <2>2. LimiterTypeOK'
    <3>1. requests' \in 0 .. MaxRequests
      BY <1>1, <2>1 DEF LimiterTypeOK
    <3> QED
      BY <1>1, <2>1, <3>1, Touched DEF LimiterTypeOK
  <2>3. ClientInv(c)'
    <3>1. Contains(order, c) /\ WithBucket(passed[c], dropped[c], Counted(c), now)
      BY <2>1, CallerRefused
    <3>2. Contains(order', c) /\ rateBuckets'[c] = Counted(c) /\ dropped'[c] = dropped[c]
      BY <1>1, <2>1, <3>1, Touched
    <3>3. \A i \in 1 .. Len(passed[c]) : passed[c][i] <= now
      BY <2>1 DEF LimiterInv, ClientInv
    <3> QED
      BY <2>1, <3>1, <3>2, <3>3 DEF ClientInv
  <2>4. ASSUME NEW d \in Addresses, d # c PROVE ClientInv(d)'
    BY <2>1, <2>4, OthersKeep
  <2> QED
    BY <2>2, <2>3, <2>4 DEF LimiterInv
<1>4. CASE Tick
  <2>1. now' = now + 1 /\ UNCHANGED <<twoHops, order, rateBuckets, requests, passed, dropped>>
    BY <1>4 DEF Tick
  <2>2. LimiterTypeOK'
    BY <1>1, <2>1 DEF LimiterTypeOK
  <2>3. ASSUME Rpm > 0, NEW c \in Addresses PROVE ClientInv(c)'
    <3>1. ClientInv(c) /\ now \in Nat /\ passed[c] \in Seq(Nat)
      BY <1>1, <2>3 DEF LimiterInv, LimiterTypeOK
    <3>2. \A i \in 1 .. Len(passed[c]) : passed[c][i] <= now + 1
      BY <3>1, ElementOfSeq DEF ClientInv
    <3>3. \A p, d, b, t : t \in Nat /\ WithBucket(p, d, b, t) => WithBucket(p, d, b, t + 1)
      BY DEF WithBucket
    <3> QED
      BY <2>1, <3>1, <3>2, <3>3 DEF ClientInv
  <2> QED
    BY <2>2, <2>3 DEF LimiterInv
<1>5. CASE UNCHANGED limiterVars
  <2>1. LimiterTypeOK'
    BY <1>1, <1>5 DEF LimiterTypeOK, limiterVars
  <2>2. \A c \in Addresses : ClientInv(c) => ClientInv(c)'
    BY <1>5 DEF ClientInv, limiterVars
  <2> QED
    BY <2>1, <2>2 DEF LimiterInv
<1> QED
  BY <1>2, <1>3, <1>4, <1>5 DEF LimiterNext

LEMMA LimiterInvHolds == LimiterSpec => []LimiterInv
  BY LimiterInitInv, LimiterNextInv, PTL DEF LimiterSpec

\* In any stretch as long as a window a client gets through at most twice its
\* budget, and one budget more for every time its bucket was dropped, for any
\* budget, window and size of the table and whatever headers it makes up
\* (177-209).
THEOREM SlidingTheorem == LimiterSpec => []SlidingBound
<1>1. LimiterInv => SlidingBound
  <2> SUFFICES ASSUME LimiterInv, Rpm > 0, NEW c \in Addresses, NEW t \in 0 .. now
               PROVE  Cardinality(PassedIn(c, t, t + Window - 1)) <= (2 + dropped[c]) * Rpm
    BY DEF LimiterInv, SlidingBound
  <2> DEFINE p == passed[c]
             d == dropped[c]
  <2>1. p \in Seq(Nat) /\ d \in Nat /\ now \in Nat /\ t \in Int
    BY ClientTypes DEF LimiterInv
  <2>2. PassedIn(c, t, t + Window - 1) = Between(p, Len(p), t, t + Window - 1)
    BY DEF PassedIn, Between
  <2>3. IF Contains(order, c) THEN WithBucket(p, d, rateBuckets[c], now) ELSE WithoutBucket(p, d)
    BY DEF LimiterInv, ClientInv
  <2> HIDE DEF p, d
  <2>4. Cardinality(Between(p, Len(p), t, t + Window - 1)) <= Budget(2 + d)
    <3>1. CASE Contains(order, c)
      BY <2>1, <2>3, <3>1, OpenBound
    <3>2. CASE ~Contains(order, c)
      <4>1. Cardinality(Between(p, Len(p), t, t + Window - 1)) <= Budget(1 + d)
        BY <2>1, <2>3, <3>2 DEF WithoutBucket
      <4>2. Budget(1 + d) \in Nat /\ Budget(2 + d) = Budget(1 + d) + Rpm /\ Rpm \in Nat
        BY <2>1, Budgets, LimitsAssumption
      <4>3. Cardinality(Between(p, Len(p), t, t + Window - 1)) \in Nat
        <5>1. Len(p) \in Nat /\ Between(p, Len(p), t, t + Window - 1) \in SUBSET (1 .. Len(p))
          BY <2>1 DEF Between
        <5> QED
          BY <5>1, PassesCount
      <4> QED
        BY <4>1, <4>2, <4>3
    <3> QED
      BY <3>1, <3>2
  <2> QED
    BY <2>2, <2>4 DEF Budget, d
<1> QED
  BY <1>1, LimiterInvHolds, PTL

\* A client is refused only when it had its whole budget within the last
\* window, whoever sends what headers and whoever is dropped (177-209).
THEOREM RefusedTheorem == LimiterSpec => RefusedOnlyOverBudget
<1>1. ASSUME LimiterInv, NEW c \in Addresses, Refuse(c)
      PROVE  Cardinality(PassedIn(c, now - Window + 1, now)) >= Rpm
  <2> DEFINE p == passed[c]
             b == rateBuckets[c]
             n == Len(p)
  <2>1. Rpm > 0 /\ Over(c)
    BY <1>1, KeyedByItself DEF Refuse
  <2>2. /\ now - b.windowStart < Window
        /\ WithBucket(p, dropped[c], b, now) /\ Old(p, b) = n - Rpm
    BY <1>1, <2>1, CallerRefused
  <2>3. /\ p \in Seq(Nat) /\ now \in Nat /\ b.windowStart \in Nat
        /\ \A i \in 1 .. n : p[i] <= now
    BY <1>1, <2>1, ClientTypes DEF LimiterInv, ClientInv
  <2>4. /\ n \in Nat /\ n - Rpm \in Nat /\ Rpm \in Nat /\ Window \in Nat
        /\ \A i \in 1 .. n : p[i] \in Nat
        /\ \A i \in n - Rpm + 1 .. n : p[i] >= b.windowStart
    BY <2>2, <2>3, BucketParts DEF WithBucket
  <2>5. PassedIn(c, now - Window + 1, now) = Between(p, n, now - Window + 1, now)
    BY DEF PassedIn, Between
  <2> HIDE DEF p, b, n
  <2>6. n - Rpm + 1 .. n \subseteq Between(p, n, now - Window + 1, now)
    BY <2>2, <2>3, <2>4 DEF Between
  <2>7. Between(p, n, now - Window + 1, now) \in SUBSET (1 .. n)
    BY DEF Between
  <2>8. /\ Cardinality(n - Rpm + 1 .. n) <= Cardinality(Between(p, n, now - Window + 1, now))
        /\ Cardinality(Between(p, n, now - Window + 1, now)) \in Nat
    BY <2>4, <2>6, <2>7, PassesCount
  <2>9. Cardinality(n - Rpm + 1 .. n) = Rpm
    BY <2>1, <2>4, FS_Interval
  <2> QED
    BY <2>4, <2>5, <2>8, <2>9
<1>2. LimiterInv /\ [LimiterNext]_limiterVars =>
        [\A c \in Addresses : Refuse(c) =>
            Cardinality(PassedIn(c, now - Window + 1, now)) >= Rpm]_limiterVars
  BY <1>1
<1> QED
  BY <1>2, LimiterInvHolds, PTL DEF LimiterSpec, RefusedOnlyOverBudget
=============================================================================
