------------------------- MODULE CallDispatchProofs -------------------------
(* Proofs about CallDispatch, for every number of organisations, campaigns, *)
(* caller ids and calls, every limit, every mix of faults and an unbounded  *)
(* run of the clock up to MaxTime.                                          *)
EXTENDS CallDispatch, FiniteSetTheorems, TLAPS

----------------------------------------------------------------------------
(* Type correctness *)

\* One step of a dispatch, of a release or of the clock keeps every variable
\* of the model within its type.
LEMMA DispatchTypeOK ==
    ASSUME TypeOK, NEW d \in Dispatch, DispatchStep(d)
    PROVE  TypeOK'
<1> USE CampaignAssumption, LimitAssumption, TimeoutAssumption, ActorAssumption
        DEF TypeOK, RedisTypeOK, PC, RelPC, Actor, Go, RelGo,
            slotVars, poolVars, OrgOfDispatch
<1>1. CASE Acquire(d) BY <1>1 DEF Acquire, GrantSlot, Fresh
<1>2. CASE Refuse(d)
  <2>1. campaignSlots' \in [Campaign -> SUBSET Dispatch]
    <3>1. CASE UNCHANGED campaignSlots BY <3>1
    <3>2. CASE ~ UNCHANGED campaignSlots
      <4>1. campaignSlots' = [campaignSlots EXCEPT ![CampaignOf[d]] = Fresh(@)]
        BY <1>2, <3>2 DEF Refuse, RefuseSlot
      <4>2. Fresh(campaignSlots[CampaignOf[d]]) \in SUBSET Dispatch
        BY DEF Fresh
      <4>3. QED BY <4>1, <4>2
    <3>3. QED BY <3>1, <3>2
  <2>2. orgSlots' \in [Org -> SUBSET Dispatch]
    BY <1>2 DEF Refuse, RefuseSlot, Fresh
  <2>3. UNCHANGED <<now, fleetSlots, takenAt, slotMap, numberScore, number,
                    numberMap, call, rel>>
    BY <1>2 DEF Refuse, RefuseSlot
  <2>4. pc' \in [Dispatch -> PC]
    BY <1>2 DEF Refuse
  <2>5. QED BY <2>1, <2>2, <2>3, <2>4
<1>3. CASE AcquireRaises(d) BY <1>3 DEF AcquireRaises, GrantSlot, Fresh
<1>4. CASE RaiseEarly(d) BY <1>4 DEF RaiseEarly
<1>5. CASE ChooseNumber(d)
  <2>1. CASE Pooled(d)
    <3> PICK n \in Available(d) :
          /\ number' = [number EXCEPT ![d] = n]
          /\ numberScore' =
               [m \in Number |->
                  IF m = n THEN now
                  ELSE IF m \in Available(d) THEN 0
                  ELSE numberScore[m]]
      BY <1>5, <2>1 DEF ChooseNumber, TakeNumber
    <3> n \in Number
      BY DEF Available
    <3> QED
      BY <1>5 DEF ChooseNumber
  <2>2. CASE ~Pooled(d) BY <1>5, <2>2 DEF ChooseNumber
  <2>3. QED BY <2>1, <2>2
<1>6. CASE Dial(d) BY <1>6 DEF Dial
<1>7. CASE DialDeferred(d) BY <1>7 DEF DialDeferred
<1>8. CASE FailUnbound(d) BY <1>8 DEF FailUnbound
<1>9. CASE Bind(d) BY <1>9 DEF Bind, StoreSlotMap
<1>10. CASE Return(d)
  <2>1. CASE Pooled(d)
    <3>1. numberMap' = [numberMap EXCEPT ![d] = now]
      BY <1>10, <2>1 DEF Return, StoreNumberMap
    <3>2. QED BY <1>10, <3>1 DEF Return
  <2>2. CASE ~Pooled(d) BY <1>10, <2>2 DEF Return
  <2>3. QED BY <2>1, <2>2
<1>11. CASE FailBound(d)
  <2>1. CASE StoreNumberMap(d) BY <1>11, <2>1 DEF FailBound, StoreNumberMap
  <2>2. CASE UNCHANGED numberMap BY <1>11, <2>2 DEF FailBound
  <2>3. QED BY <1>11, <2>1, <2>2 DEF FailBound
<1>12. CASE Unwound(d)
  <2>1. CASE number[d] # NoNumber
    <3>1. numberScore' \in [Number -> Nat] /\ UNCHANGED number
      BY <1>12, <2>1 DEF Unwound, FreeNumber
    <3>2. QED BY <1>12, <3>1 DEF Unwound
  <2>2. CASE number[d] = NoNumber BY <1>12, <2>2 DEF Unwound
  <2>3. QED BY <2>1, <2>2
<1>13. CASE Cancel(d) BY <1>13 DEF Cancel
<1>14. QED
  BY <1>1, <1>2, <1>3, <1>4, <1>5, <1>6, <1>7, <1>8, <1>9, <1>10, <1>11,
     <1>12, <1>13 DEF DispatchStep

LEMMA ReleaseTypeOK ==
    ASSUME TypeOK, NEW d \in Dispatch, NEW a \in Actor, ReleaseStep(d, a)
    PROVE  TypeOK'
<1> USE CampaignAssumption
        DEF TypeOK, RedisTypeOK, PC, RelPC, Go, RelGo,
            slotVars, poolVars, OrgOfDispatch, AfterSlot
<1>1. CASE Report(d, a) BY <1>1 DEF Report
<1>2. CASE ReleaseOrg(d, a) BY <1>2 DEF ReleaseOrg, ZremOrg
<1>3. CASE ReleaseFleet(d, a) BY <1>3 DEF ReleaseFleet, ZremFleet
<1>4. CASE ReleaseCampaign(d, a) BY <1>4 DEF ReleaseCampaign, ZremCampaign
<1>5. CASE Unmap(d, a) BY <1>5 DEF Unmap, DeleteSlotMap
<1>6. CASE ReleaseRaises(d, a) BY <1>6 DEF ReleaseRaises
<1>7. CASE LookUpNumber(d, a) BY <1>7 DEF LookUpNumber
<1>8. CASE ReleaseNumber(d, a) BY <1>8 DEF ReleaseNumber, FreeNumber
<1>9. CASE UnmapNumber(d, a) BY <1>9 DEF UnmapNumber, DeleteNumberMap
<1>10. QED
  BY <1>1, <1>2, <1>3, <1>4, <1>5, <1>6, <1>7, <1>8, <1>9 DEF ReleaseStep

\* The variables of the dispatch model stay within their types.
THEOREM TypeCorrect == Spec => []TypeOK
<1>1. Init => TypeOK
  BY CampaignAssumption
     DEF Init, RedisInit, TypeOK, RedisTypeOK, PC, RelPC, Actor
<1>2. TypeOK /\ [Next]_vars => TypeOK'
  <2> SUFFICES ASSUME TypeOK, [Next]_vars PROVE TypeOK'
    OBVIOUS
  <2>1. CASE UNCHANGED vars
    BY <2>1 DEF vars, TypeOK, RedisTypeOK
  <2>2. ASSUME NEW d \in Dispatch, DispatchStep(d) PROVE TypeOK'
    BY <2>2, DispatchTypeOK
  <2>3. ASSUME NEW d \in Dispatch, Hangup(d) PROVE TypeOK'
    BY <2>3 DEF Hangup, TypeOK, RedisTypeOK, slotVars, poolVars
  <2>4. ASSUME NEW d \in Dispatch, NEW a \in Actor, ReleaseStep(d, a)
        PROVE  TypeOK'
    BY <2>4, ReleaseTypeOK
  <2>5. CASE Tick
    BY <2>5 DEF Tick, TypeOK, RedisTypeOK, slotVars, poolVars
  <2>6. QED
    BY <2>1, <2>2, <2>3, <2>4, <2>5 DEF Next
<1>3. QED
  BY <1>1, <1>2, PTL DEF Spec

----------------------------------------------------------------------------
(* What a step does to the sorted sets *)

LEMMA FreshSubset == \A S : Fresh(S) \subseteq S
BY DEF Fresh

\* Only these commands touch the sorted sets and the scores.
SlotStep ==
    \/ /\ UNCHANGED now
       /\ \/ \E d \in Dispatch : /\ pc[d] = "waiting"
                                 /\ GrantSlot(d)
                                 /\ Go(d, "held") \/ Go(d, "refused")
                                 /\ UNCHANGED <<slotMap, call, rel>>
          \/ \E d \in Dispatch : RefuseSlot(d)
          \/ \E d \in Dispatch, a \in Actor : rel[d][a] = "org" /\ ZremOrg(d)
          \/ \E d \in Dispatch, a \in Actor : rel[d][a] = "fleet" /\ ZremFleet(d)
          \/ \E d \in Dispatch, a \in Actor :
                rel[d][a] = "campaign" /\ ZremCampaign(d)
    \/ UNCHANGED slotVars

LEMMA SlotSteps ==
    ASSUME TypeOK, [Next]_vars
    PROVE  SlotStep
<1>1. CASE UNCHANGED vars
  BY <1>1 DEF vars, SlotStep, slotVars
<1>2. ASSUME NEW d \in Dispatch, DispatchStep(d) PROVE SlotStep
  <2>1. CASE Acquire(d) BY <2>1 DEF Acquire, SlotStep
  <2>2. CASE Refuse(d) BY <2>2 DEF Refuse, SlotStep
  <2>3. CASE AcquireRaises(d) BY <2>3 DEF AcquireRaises, SlotStep
  <2>4. ASSUME ~Acquire(d), ~Refuse(d), ~AcquireRaises(d)
        PROVE  UNCHANGED slotVars
    BY <1>2, <2>4 DEF DispatchStep, RaiseEarly, ChooseNumber, Dial,
       DialDeferred, FailUnbound, Bind, Return, FailBound, Unwound, Cancel
  <2>5. QED BY <2>1, <2>2, <2>3, <2>4 DEF SlotStep
<1>3. ASSUME NEW d \in Dispatch, Hangup(d) PROVE SlotStep
  BY <1>3 DEF Hangup, SlotStep
<1>4. ASSUME NEW d \in Dispatch, NEW a \in Actor, ReleaseStep(d, a)
      PROVE  SlotStep
  <2>1. CASE ReleaseOrg(d, a) BY <2>1 DEF ReleaseOrg, SlotStep
  <2>2. CASE ReleaseFleet(d, a) BY <2>2 DEF ReleaseFleet, SlotStep
  <2>3. CASE ReleaseCampaign(d, a) BY <2>3 DEF ReleaseCampaign, SlotStep
  <2>4. ASSUME ~ReleaseOrg(d, a), ~ReleaseFleet(d, a), ~ReleaseCampaign(d, a)
        PROVE  UNCHANGED slotVars
    BY <1>4, <2>4 DEF ReleaseStep, Report, Unmap, ReleaseRaises,
       LookUpNumber, ReleaseNumber, UnmapNumber
  <2>5. QED BY <2>1, <2>2, <2>3, <2>4 DEF SlotStep
<1>5. CASE Tick
  BY <1>5 DEF Tick, SlotStep
<1>6. QED
  BY <1>1, <1>2, <1>3, <1>4, <1>5 DEF Next

----------------------------------------------------------------------------
(* The caps *)

\* A set of slots that only shrinks stays under its cap; a set that was under
\* its cap after a trim is at most at its cap with one member more.
LEMMA ShrinkKeepsCap ==
    ASSUME NEW S \in SUBSET Dispatch, NEW T \in SUBSET S, NEW L \in Nat,
           Cardinality(S) <= L
    PROVE  Cardinality(T) <= L
<1>1. IsFiniteSet(S)
  BY DispatchAssumption, FS_Subset
<1>2. IsFiniteSet(T) /\ Cardinality(T) <= Cardinality(S)
  BY <1>1, FS_Subset
<1>3. Cardinality(S) \in Nat /\ Cardinality(T) \in Nat
  BY <1>1, <1>2, FS_CardinalityType
<1>4. QED BY <1>2, <1>3

LEMMA RoomForOne ==
    ASSUME NEW S \in SUBSET Dispatch, NEW d \in Dispatch, NEW L \in Nat,
           Cardinality(S) < L
    PROVE  Cardinality(S \union {d}) <= L
<1>1. IsFiniteSet(S)
  BY DispatchAssumption, FS_Subset
<1>2. Cardinality(S) \in Nat
  BY <1>1, FS_CardinalityType
<1>3. QED BY <1>1, <1>2, FS_AddElement

LEMMA LimitsAreNat ==
    /\ \A o \in Org : OrgLimit[o] \in Nat
    /\ \A c \in Campaign : ScopeMax(c) \in Nat
BY LimitAssumption DEF ScopeMax

LEMMA CapStep ==
    ASSUME TypeOK, CapRespected, SlotStep
    PROVE  CapRespected'
<1> USE DEF TypeOK, RedisTypeOK
<1>1. ASSUME \A o \in Org : Cardinality(orgSlots'[o]) <= OrgLimit[o],
             \A p \in Campaign : Cardinality(campaignSlots'[p]) <= ScopeMax(p)
      PROVE  CapRespected'
  BY <1>1 DEF CapRespected, ScopeMax
<1>2. ASSUME NEW d \in Dispatch, GrantSlot(d) PROVE CapRespected'
  <2> DEFINE c == CampaignOf[d]
             o == OrgOf[c]
  <2>1. c \in Campaign /\ o \in Org
    BY CampaignAssumption
  <2>2. /\ Cardinality(Fresh(orgSlots[o])) < OrgLimit[o]
        /\ Cardinality(Fresh(campaignSlots[c])) < ScopeMax(c)
        /\ orgSlots' = [orgSlots EXCEPT ![o] = Fresh(orgSlots[o]) \union {d}]
        /\ campaignSlots' =
             [campaignSlots EXCEPT ![c] = Fresh(campaignSlots[c]) \union {d}]
    BY <1>2 DEF GrantSlot, OrgHasRoom, CampaignHasRoom
  <2>3. /\ Fresh(orgSlots[o]) \in SUBSET Dispatch
        /\ Fresh(campaignSlots[c]) \in SUBSET Dispatch
    BY <2>1, FreshSubset
  <2>4. Cardinality(orgSlots'[o]) <= OrgLimit[o]
    BY <2>1, <2>2, <2>3, LimitsAreNat, RoomForOne
  <2>5. Cardinality(campaignSlots'[c]) <= ScopeMax(c)
    BY <2>1, <2>2, <2>3, LimitsAreNat, RoomForOne
  <2>6. /\ \A p \in Org \ {o} : orgSlots'[p] = orgSlots[p]
        /\ \A p \in Campaign \ {c} : campaignSlots'[p] = campaignSlots[p]
    BY <2>2
  <2>7. /\ \A p \in Org : Cardinality(orgSlots'[p]) <= OrgLimit[p]
        /\ \A p \in Campaign : Cardinality(campaignSlots'[p]) <= ScopeMax(p)
    BY <2>4, <2>5, <2>6 DEF CapRespected
  <2>8. QED BY <2>7, <1>1
<1>3. ASSUME \A o \in Org : orgSlots'[o] \in SUBSET orgSlots[o],
             \A p \in Campaign : campaignSlots'[p] \in SUBSET campaignSlots[p]
      PROVE  CapRespected'
  <2>1. ASSUME NEW o \in Org PROVE Cardinality(orgSlots'[o]) <= OrgLimit[o]
    BY <1>3, ShrinkKeepsCap, LimitsAreNat DEF CapRespected
  <2>2. ASSUME NEW p \in Campaign
        PROVE  Cardinality(campaignSlots'[p]) <= ScopeMax(p)
    BY <1>3, ShrinkKeepsCap, LimitsAreNat DEF CapRespected
  <2>3. QED BY <2>1, <2>2, <1>1
<1>4. ASSUME NEW d \in Dispatch, RefuseSlot(d) PROVE CapRespected'
  <2>1. \A o \in Org : orgSlots'[o] \in SUBSET orgSlots[o]
    BY <1>4, FreshSubset DEF RefuseSlot
  <2>2. \A p \in Campaign : campaignSlots'[p] \in SUBSET campaignSlots[p]
    BY <1>4, FreshSubset DEF RefuseSlot
  <2>3. QED BY <2>1, <2>2, <1>3
<1>5. ASSUME NEW d \in Dispatch, ZremOrg(d) PROVE CapRespected'
  BY <1>5, <1>3 DEF ZremOrg
<1>6. ASSUME NEW d \in Dispatch, ZremFleet(d) PROVE CapRespected'
  BY <1>6, <1>3 DEF ZremFleet
<1>7. ASSUME NEW d \in Dispatch, ZremCampaign(d) PROVE CapRespected'
  BY <1>7, <1>3 DEF ZremCampaign
<1>8. CASE UNCHANGED slotVars
  <2>1. orgSlots' = orgSlots /\ campaignSlots' = campaignSlots
    BY <1>8 DEF slotVars
  <2>2. QED BY <2>1, <1>3
<1>9. QED
  BY <1>2, <1>4, <1>5, <1>6, <1>7, <1>8 DEF SlotStep

\* Neither the organisation's nor the campaign's sorted set ever holds more
\* members than its cap.
THEOREM CapsHold == Spec => []CapRespected
<1>1. Init => CapRespected
  BY LimitsAreNat, FS_EmptySet DEF Init, RedisInit, CapRespected
<1>2. TypeOK /\ CapRespected /\ [Next]_vars => CapRespected'
  BY SlotSteps, CapStep
<1>3. QED
  BY <1>1, <1>2, TypeCorrect, PTL DEF Spec

----------------------------------------------------------------------------
(* The slots of the calls in flight *)

\* What a step may do to the control state of one dispatch.
LocalStep(e) ==
    /\ now' >= now
    /\ pc[e] = "waiting" =>
          /\ rel'[e] = rel[e]
          /\ call'[e] = call[e]
          /\ \/ pc'[e] \in {"waiting", "refused"}
             \/ pc'[e] = "held" /\ GrantSlot(e) /\ UNCHANGED now
    /\ pc[e] # "waiting" => pc'[e] # "waiting" /\ (InUse(e)' => InUse(e))
    /\ pc'[e] \in {"dialled", "bound", "returned"} =>
          /\ pc[e] \in {"dialling", "dialled", "bound"} \/ pc[e] = pc'[e]
          /\ rel'[e]["self"] = rel[e]["self"]
    /\ pc'[e] \in {"held", "dialling"} /\ pc[e] # "waiting" =>
          /\ pc[e] \in {"held", "dialling"}
          /\ rel'[e]["self"] = rel[e]["self"]
    /\ pc'[e] \in {"unwinding", "deferring"} =>
          \/ rel'[e]["self"] # "off"
          \/ pc[e] = pc'[e] /\ rel'[e]["self"] = rel[e]["self"]
    /\ call'[e] # "ended" => call[e] # "ended"
    /\ pc'[e] \in {"waiting", "refused", "held", "dialling"} =>
          /\ pc[e] \in {"waiting", "refused", "held", "dialling"}
          /\ call'[e] = call[e]
    /\ \A a \in Reporter :
          rel'[e][a] # rel[e][a] => rel[e][a] # "off" \/ call'[e] = "ended"
    /\ \A a \in Actor :
          /\ rel'[e][a] = "fleet" => rel[e][a] = "fleet" \/ ~InOrg(e)'
          /\ rel'[e][a] = "campaign" =>
                \/ rel[e][a] = "campaign"
                \/ rel[e][a] = "fleet" /\ e \notin fleetSlots'
          /\ rel'[e][a] = "unmap" =>
                \/ rel[e][a] = "unmap"
                \/ rel[e][a] = "campaign" /\ ~InCampaign(e)'
    /\ pc'[e] \in {"bound", "returned"} =>
          \/ /\ pc[e] \in {"bound", "returned"}
             /\ \/ slotMap'[e] = slotMap[e]
                \/ \E a \in Actor : rel[e][a] = "unmap"
          \/ pc[e] = "dialled" /\ slotMap'[e] = now

LEMMA LocalSteps ==
    ASSUME TypeOK, SlotInv, [Next]_vars, NEW e \in Dispatch
    PROVE  LocalStep(e)
<1> ControlInv(e)
  BY DEF SlotInv
<1> USE CampaignAssumption, ActorAssumption
        DEF TypeOK, RedisTypeOK, PC, RelPC, Actor, Go, RelGo, LocalStep,
            InUse, InOrg, InCampaign, OrgOfDispatch, ControlInv,
            slotVars, poolVars
<1>1. CASE UNCHANGED vars
  BY <1>1 DEF vars
<1>2. ASSUME NEW d \in Dispatch, DispatchStep(d) PROVE LocalStep(e)
  <2>1. CASE Acquire(d)
    <3>1. CASE d = e BY <2>1, <3>1 DEF Acquire
    <3>2. CASE d # e BY <2>1, <3>2 DEF Acquire
    <3>3. QED BY <3>1, <3>2
  <2>2. CASE Refuse(d) BY <2>2 DEF Refuse, RefuseSlot
  <2>3. CASE AcquireRaises(d) BY <2>3 DEF AcquireRaises, GrantSlot
  <2>4. CASE RaiseEarly(d) BY <2>4 DEF RaiseEarly
  <2>5. CASE ChooseNumber(d) BY <2>5 DEF ChooseNumber
  <2>6. CASE Dial(d) BY <2>6 DEF Dial
  <2>7. CASE DialDeferred(d) BY <2>7 DEF DialDeferred
  <2>8. CASE FailUnbound(d) BY <2>8 DEF FailUnbound
  <2>9. CASE Bind(d) BY <2>9 DEF Bind, StoreSlotMap
  <2>10. CASE Return(d) BY <2>10 DEF Return
  <2>11. CASE FailBound(d) BY <2>11 DEF FailBound
  <2>12. CASE Unwound(d) BY <2>12 DEF Unwound
  <2>13. CASE Cancel(d) BY <2>13 DEF Cancel
  <2>14. QED
    BY <1>2, <2>1, <2>2, <2>3, <2>4, <2>5, <2>6, <2>7, <2>8,
       <2>9, <2>10, <2>11, <2>12, <2>13 DEF DispatchStep
<1>3. ASSUME NEW d \in Dispatch, Hangup(d) PROVE LocalStep(e)
  BY <1>3 DEF Hangup
<1>4. ASSUME NEW d \in Dispatch, NEW b \in Actor, ReleaseStep(d, b)
      PROVE  LocalStep(e)
  <2>1. CASE Report(d, b) BY <2>1 DEF Report, AfterSlot
  <2>2. CASE ReleaseOrg(d, b) BY <2>2 DEF ReleaseOrg, ZremOrg
  <2>3. CASE ReleaseFleet(d, b) BY <2>3 DEF ReleaseFleet, ZremFleet
  <2>4. CASE ReleaseCampaign(d, b) BY <2>4 DEF ReleaseCampaign, ZremCampaign
  <2>5. CASE Unmap(d, b)
    <3>1. CASE d = e BY <2>5, <3>1 DEF Unmap, DeleteSlotMap, AfterSlot
    <3>2. CASE d # e BY <2>5, <3>2 DEF Unmap, DeleteSlotMap, AfterSlot
    <3>3. QED BY <3>1, <3>2
  <2>6. CASE ReleaseRaises(d, b) BY <2>6 DEF ReleaseRaises, AfterSlot
  <2>7. CASE LookUpNumber(d, b) BY <2>7 DEF LookUpNumber
  <2>8. CASE ReleaseNumber(d, b) BY <2>8 DEF ReleaseNumber
  <2>9. CASE UnmapNumber(d, b) BY <2>9 DEF UnmapNumber
  <2>10. QED
    BY <1>4, <2>1, <2>2, <2>3, <2>4, <2>5, <2>6, <2>7, <2>8, <2>9
       DEF ReleaseStep
<1>5. CASE Tick
  BY <1>5 DEF Tick
<1>6. QED
  BY <1>1, <1>2, <1>3, <1>4, <1>5 DEF Next

\* A dispatch that is past its grant is never added to a set again, and is
\* removed from one only when stale or by the matching step of its release.
SetsStep(e) ==
    /\ takenAt'[e] = takenAt[e]
    /\ InOrg(e)' => InOrg(e)
    /\ InCampaign(e)' => InCampaign(e)
    /\ (e \in fleetSlots)' => e \in fleetSlots
    /\ InOrg(e) /\ FreshSlot(e) /\ (\A a \in Actor : rel[e][a] # "org")
          => InOrg(e)'
    /\ InCampaign(e) /\ FreshSlot(e) /\ (\A a \in Actor : rel[e][a] # "campaign")
          => InCampaign(e)'
    /\ e \in fleetSlots /\ FreshSlot(e) /\ (\A a \in Actor : rel[e][a] # "fleet")
          => (e \in fleetSlots)'

LEMMA SetsSteps ==
    ASSUME TypeOK, SlotStep, NEW e \in Dispatch, pc[e] # "waiting"
    PROVE  SetsStep(e)
<1> USE CampaignAssumption
        DEF TypeOK, RedisTypeOK, SetsStep, InOrg, InCampaign, FreshSlot,
            OrgOfDispatch
<1>1. ASSUME NEW d \in Dispatch, pc[d] = "waiting", GrantSlot(d)
      PROVE  SetsStep(e)
  BY <1>1 DEF GrantSlot, Fresh
<1>2. ASSUME NEW d \in Dispatch, RefuseSlot(d) PROVE SetsStep(e)
  <2> DEFINE c == CampaignOf[d]
  <2>1. \/ UNCHANGED campaignSlots
        \/ campaignSlots' = [campaignSlots EXCEPT ![c] = Fresh(@)]
    BY <1>2 DEF RefuseSlot
  <2>2. /\ orgSlots' = [orgSlots EXCEPT ![OrgOf[c]] = Fresh(@)]
        /\ UNCHANGED <<fleetSlots, takenAt>>
    BY <1>2 DEF RefuseSlot
  <2>3. CASE UNCHANGED campaignSlots
    BY <2>2, <2>3 DEF Fresh
  <2>4. CASE campaignSlots' = [campaignSlots EXCEPT ![c] = Fresh(@)]
    BY <2>2, <2>4 DEF Fresh
  <2>5. QED BY <2>1, <2>3, <2>4
<1>3. ASSUME NEW d \in Dispatch, NEW a \in Actor, rel[d][a] = "org", ZremOrg(d)
      PROVE  SetsStep(e)
  BY <1>3 DEF ZremOrg
<1>4. ASSUME NEW d \in Dispatch, NEW a \in Actor, rel[d][a] = "fleet",
             ZremFleet(d)
      PROVE  SetsStep(e)
  BY <1>4 DEF ZremFleet
<1>5. ASSUME NEW d \in Dispatch, NEW a \in Actor, rel[d][a] = "campaign",
             ZremCampaign(d)
      PROVE  SetsStep(e)
  BY <1>5 DEF ZremCampaign
<1>6. CASE UNCHANGED slotVars
  BY <1>6 DEF slotVars
<1>7. QED
  BY <1>1, <1>2, <1>3, <1>4, <1>5, <1>6 DEF SlotStep

\* No score lies in the future.
LEMMA ScoresArePast ==
    ASSUME TypeOK, SlotStep, NEW e \in Dispatch, takenAt[e] <= now,
           now' \in Nat, now' >= now
    PROVE  takenAt'[e] <= now'
<1> USE DEF TypeOK, RedisTypeOK
<1>1. CASE UNCHANGED takenAt BY <1>1
<1>2. ASSUME NEW d \in Dispatch, GrantSlot(d), UNCHANGED now
      PROVE  takenAt'[e] <= now'
  BY <1>2 DEF GrantSlot
<1>3. QED
  BY <1>1, <1>2 DEF SlotStep, RefuseSlot, ZremOrg, ZremFleet, ZremCampaign,
     slotVars

SlotInvAt(e) ==
    /\ ControlInv(e)
    /\ takenAt[e] <= now
    /\ InUse(e) /\ FreshSlot(e) => InOrg(e) /\ InCampaign(e) /\ e \in fleetSlots
    /\ ReleasedSoFar(e)
    /\ MappingKept(e)

LEMMA SlotInvStep ==
    ASSUME TypeOK, TypeOK', SlotInv, SlotStep, NEW e \in Dispatch, LocalStep(e)
    PROVE  SlotInvAt(e)'
<1>1. SlotInvAt(e)
  BY DEF SlotInv, SlotInvAt
<1>2. takenAt'[e] <= now'
  BY <1>1, ScoresArePast DEF SlotInvAt, LocalStep, TypeOK, RedisTypeOK
<1>3. CASE pc[e] = "waiting"
  <2>1. ControlInv(e)' /\ \A a \in Actor : rel'[e][a] = "off"
    <3>1. /\ rel'[e] = rel[e] /\ call'[e] = call[e]
          /\ pc'[e] \in {"waiting", "refused", "held"}
          /\ \A a \in Actor : rel[e][a] = "off"
          /\ call[e] = "none"
          /\ takenAt[e] = 0
      BY <1>1, <1>3 DEF SlotInvAt, ControlInv, LocalStep
    <3>2. pc'[e] = "waiting" => takenAt'[e] = 0
      <4>1. ASSUME NEW d \in Dispatch, GrantSlot(d), pc'[e] = "waiting",
                   Go(d, "held") \/ Go(d, "refused")
            PROVE  takenAt'[e] = 0
        BY <3>1, <4>1 DEF Go, GrantSlot, TypeOK, RedisTypeOK
      <4>2. ASSUME UNCHANGED takenAt PROVE takenAt'[e] = 0
        BY <3>1, <4>2
      <4>3. QED
        BY <4>1, <4>2 DEF SlotStep, RefuseSlot, ZremOrg, ZremFleet,
           ZremCampaign, slotVars
    <3>3. QED BY <3>1, <3>2 DEF ControlInv, Actor
  <2>2. pc'[e] \in {"waiting", "refused"} \/ (pc'[e] = "held" /\ GrantSlot(e))
    BY <1>3 DEF LocalStep
  <2>3. ASSUME GrantSlot(e)
        PROVE  InOrg(e)' /\ InCampaign(e)' /\ (e \in fleetSlots)'
    BY <2>3, CampaignAssumption
       DEF GrantSlot, InOrg, InCampaign, OrgOfDispatch, TypeOK, RedisTypeOK
  <2>4. QED
    BY <1>2, <2>1, <2>2, <2>3
       DEF SlotInvAt, InUse, ReleasedSoFar, MappingKept
<1>4. CASE pc[e] # "waiting"
  <2>1. SetsStep(e)
    BY <1>4, SetsSteps
  <2>2. ControlInv(e)'
    BY <1>1, <1>4 DEF SlotInvAt, ControlInv, LocalStep
  <2>3. (InUse(e) /\ FreshSlot(e))'
           => (InOrg(e) /\ InCampaign(e) /\ e \in fleetSlots)'
    <3> SUFFICES ASSUME InUse(e)', FreshSlot(e)'
                 PROVE  InOrg(e)' /\ InCampaign(e)' /\ (e \in fleetSlots)'
      OBVIOUS
    <3>1. InUse(e)
      BY <1>4 DEF LocalStep
    <3>2. FreshSlot(e)
      BY <2>1, TimeoutAssumption
         DEF SetsStep, FreshSlot, LocalStep, TypeOK, RedisTypeOK
    <3>3. InOrg(e) /\ InCampaign(e) /\ e \in fleetSlots
      BY <1>1, <3>1, <3>2 DEF SlotInvAt
    <3>4. QED
      BY <2>1, <3>1, <3>2, <3>3 DEF SetsStep, InUse
  <2>4. ReleasedSoFar(e)'
    BY <1>1, <2>1 DEF SlotInvAt, ReleasedSoFar, LocalStep, SetsStep
  <2>5. MappingKept(e)'
    <3> SUFFICES ASSUME pc'[e] \in {"bound", "returned"}, Counted(e)'
                 PROVE  slotMap'[e] # 0 /\ slotMap'[e] >= takenAt'[e]
      BY DEF MappingKept
    <3>1. Counted(e)
      BY <2>1 DEF Counted, SetsStep
    <3>2. \A a \in Actor : rel[e][a] # "unmap"
      BY <1>1, <3>1 DEF SlotInvAt, ReleasedSoFar, Counted
    <3>3. CASE pc[e] \in {"bound", "returned"} /\ slotMap'[e] = slotMap[e]
      BY <1>1, <2>1, <3>1, <3>3 DEF SlotInvAt, MappingKept, SetsStep
    <3>4. CASE slotMap'[e] = now
      BY <1>1, <2>1, <3>4 DEF SlotInvAt, SetsStep, TypeOK, RedisTypeOK
    <3>5. QED
      BY <3>2, <3>3, <3>4 DEF LocalStep
  <2>6. QED BY <1>2, <2>2, <2>3, <2>4, <2>5 DEF SlotInvAt
<1>5. QED BY <1>3, <1>4

\* The strengthening is an invariant.
THEOREM SlotsHold == Spec => []SlotInv
<1>1. Init => SlotInv
  BY ActorAssumption
     DEF Init, RedisInit, SlotInv, ControlInv, InUse, FreshSlot,
         ReleasedSoFar, MappingKept, Actor
<1>2. TypeOK /\ TypeOK' /\ SlotInv /\ [Next]_vars => SlotInv'
  <2> SUFFICES ASSUME TypeOK, TypeOK', SlotInv, [Next]_vars PROVE SlotInv'
    OBVIOUS
  <2>1. ASSUME NEW e \in Dispatch PROVE SlotInvAt(e)'
    BY LocalSteps, SlotSteps, SlotInvStep
  <2>2. QED
    BY <2>1 DEF SlotInv, SlotInvAt
<1>3. QED
  BY <1>1, <1>2, TypeCorrect, PTL DEF Spec

\* A call in flight keeps its slot in all three sets until the slot is stale.
THEOREM LiveCallsHoldSlots == Spec => []LiveCallHoldsSlot
<1>1. SlotInv => LiveCallHoldsSlot
  BY DEF SlotInv, LiveCallHoldsSlot, ControlInv, InUse, Actor
<1>2. QED BY <1>1, SlotsHold, PTL

\* Hence the young calls in flight of an organisation stay within its cap.
THEOREM LiveCallsStayWithinCap == Spec => []LiveCallsWithinCap
<1>1. TypeOK /\ CapRespected /\ SlotInv => LiveCallsWithinCap
  <2> SUFFICES ASSUME TypeOK, CapRespected, SlotInv, NEW o \in Org
               PROVE  Cardinality({d \in Dispatch :
                        /\ OrgOfDispatch(d) = o
                        /\ call[d] = "live"
                        /\ pc[d] \in {"dialled", "bound", "returned"}
                        /\ FreshSlot(d)}) <= OrgLimit[o]
    BY DEF LiveCallsWithinCap
  <2> DEFINE L == {d \in Dispatch :
                     /\ OrgOfDispatch(d) = o
                     /\ call[d] = "live"
                     /\ pc[d] \in {"dialled", "bound", "returned"}
                     /\ FreshSlot(d)}
  <2>1. L \in SUBSET orgSlots[o]
    BY DEF SlotInv, ControlInv, InUse, InOrg, Actor
  <2>2. orgSlots[o] \in SUBSET Dispatch /\ Cardinality(orgSlots[o]) <= OrgLimit[o]
    BY DEF TypeOK, RedisTypeOK, CapRespected
  <2>3. QED
    BY <2>1, <2>2, ShrinkKeepsCap, LimitsAreNat
<1>2. QED BY <1>1, TypeCorrect, CapsHold, SlotsHold, PTL

\* A fresh slot that is still counted can still be released by a report.
THEOREM CountedSlotsAreReleasable == Spec => []CountedSlotIsReleasable
<1>1. TypeOK /\ SlotInv => CountedSlotIsReleasable
  BY TimeoutAssumption
     DEF TypeOK, RedisTypeOK, SlotInv, CountedSlotIsReleasable, MappingKept,
         SlotMapped, FreshSlot
<1>2. QED BY <1>1, TypeCorrect, SlotsHold, PTL

\* Only staleness or its own release takes a slot out of the organisation's set.
THEOREM SlotsFreedByOwner == Spec => OnlyOwnerFreesSlot
<1>1. TypeOK /\ SlotInv /\ [Next]_vars =>
        [\A d \in Dispatch :
           InOrg(d) /\ ~InOrg(d)'
              => ~FreshSlot(d) \/ \E a \in Actor : rel[d][a] = "org"]_vars
  <2> SUFFICES ASSUME TypeOK, SlotInv, [Next]_vars, NEW d \in Dispatch,
                      InOrg(d), ~InOrg(d)', FreshSlot(d)
               PROVE  \E a \in Actor : rel[d][a] = "org"
    OBVIOUS
  <2>1. pc[d] # "waiting"
    BY DEF SlotInv, ControlInv, FreshSlot
  <2>2. QED BY <2>1, SlotSteps, SetsSteps DEF SetsStep
<1>2. QED BY <1>1, TypeCorrect, SlotsHold, PTL DEF Spec, OnlyOwnerFreesSlot

----------------------------------------------------------------------------
(* Refinement *)

\* What a step means for one family of sorted sets: a new lease under the cap,
\* some leases gone, or nothing.
LEMMA GrantIsNew ==
    ASSUME TypeOK, SlotInv, NEW d \in Dispatch, pc[d] = "waiting", GrantSlot(d)
    PROVE  d \notin Slotted /\ Slotted' = Slotted \union {d}
<1>1. takenAt[d] = 0
  BY DEF SlotInv, ControlInv
<1>2. takenAt' = [takenAt EXCEPT ![d] = now] /\ now # 0
  BY DEF GrantSlot, TypeOK, RedisTypeOK
<1>3. QED BY <1>1, <1>2 DEF Slotted, TypeOK, RedisTypeOK

LEMMA OrgLeaseTakeIsNext ==
    ASSUME NEW o \in Org, NEW d \in Dispatch, NEW K \in SUBSET orgSlots[o],
           Cardinality(K) < OrgLimit[o],
           orgSlots' = [orgSlots EXCEPT ![o] = K \union {d}],
           d \notin Slotted, Slotted' = Slotted \union {d}
    PROVE  OrgLease!Next
<1>1. OrgLease!Take(o, d)
  BY DEF OrgLease!Take, OrgLease!Cardinality, Cardinality
<1>2. QED BY <1>1 DEF OrgLease!Next

LEMMA OrgLeaseStep ==
    ASSUME TypeOK, SlotInv, SlotStep
    PROVE  [OrgLease!Next]_<<orgSlots, Slotted>>
<1> USE DEF TypeOK, RedisTypeOK
<1>1. ASSUME NEW d \in Dispatch, pc[d] = "waiting", GrantSlot(d)
      PROVE  OrgLease!Next
  <2> DEFINE o == OrgOf[CampaignOf[d]]
             K == Fresh(orgSlots[o])
  <2>1. o \in Org /\ K \in SUBSET orgSlots[o]
    BY CampaignAssumption, FreshSubset
  <2>2. /\ Cardinality(K) < OrgLimit[o]
        /\ orgSlots' = [orgSlots EXCEPT ![o] = K \union {d}]
    BY <1>1 DEF GrantSlot, OrgHasRoom
  <2>3. d \notin Slotted /\ Slotted' = Slotted \union {d}
    BY <1>1, GrantIsNew
  <2>4. QED BY <2>1, <2>2, <2>3, OrgLeaseTakeIsNext
<1>2. ASSUME NEW o \in Org, NEW K \in SUBSET orgSlots[o],
             orgSlots' = [orgSlots EXCEPT ![o] = K], UNCHANGED takenAt
      PROVE  OrgLease!Next
  <2>1. OrgLease!Lapse(o)
    BY <1>2 DEF OrgLease!Lapse, Slotted
  <2>2. QED BY <2>1 DEF OrgLease!Next
<1>3. ASSUME NEW d \in Dispatch, RefuseSlot(d) PROVE OrgLease!Next
  BY <1>2, <1>3, FreshSubset, CampaignAssumption DEF RefuseSlot
<1>4. ASSUME NEW d \in Dispatch, ZremOrg(d) PROVE OrgLease!Next
  BY <1>2, <1>4, CampaignAssumption DEF ZremOrg, OrgOfDispatch
<1>5. ASSUME UNCHANGED <<orgSlots, takenAt>>
      PROVE  UNCHANGED <<orgSlots, Slotted>>
  BY <1>5 DEF Slotted
<1>6. QED
  BY <1>1, <1>3, <1>4, <1>5
     DEF SlotStep, ZremFleet, ZremCampaign, slotVars

LEMMA CampaignLeaseTakeIsNext ==
    ASSUME NEW c \in Campaign, NEW d \in Dispatch, NEW K \in SUBSET campaignSlots[c],
           Cardinality(K) < ScopeMax(c),
           campaignSlots' = [campaignSlots EXCEPT ![c] = K \union {d}],
           d \notin Slotted, Slotted' = Slotted \union {d}
    PROVE  CampaignLease!Next
<1>1. CampaignLease!Take(c, d)
  BY DEF CampaignLease!Take, CampaignLease!Cardinality, Cardinality
<1>2. QED BY <1>1 DEF CampaignLease!Next

LEMMA CampaignLeaseStep ==
    ASSUME TypeOK, SlotInv, SlotStep
    PROVE  [CampaignLease!Next]_<<campaignSlots, Slotted>>
<1> USE DEF TypeOK, RedisTypeOK
<1>1. ASSUME NEW d \in Dispatch, pc[d] = "waiting", GrantSlot(d)
      PROVE  CampaignLease!Next
  <2> DEFINE c == CampaignOf[d]
             K == Fresh(campaignSlots[c])
  <2>1. c \in Campaign /\ K \in SUBSET campaignSlots[c]
    BY CampaignAssumption, FreshSubset
  <2>2. /\ Cardinality(K) < ScopeMax(c)
        /\ campaignSlots' = [campaignSlots EXCEPT ![c] = K \union {d}]
    BY <1>1 DEF GrantSlot, CampaignHasRoom
  <2>3. d \notin Slotted /\ Slotted' = Slotted \union {d}
    BY <1>1, GrantIsNew
  <2>4. QED BY <2>1, <2>2, <2>3, CampaignLeaseTakeIsNext
<1>2. ASSUME NEW c \in Campaign, NEW K \in SUBSET campaignSlots[c],
             campaignSlots' = [campaignSlots EXCEPT ![c] = K],
             UNCHANGED takenAt
      PROVE  CampaignLease!Next
  <2>1. CampaignLease!Lapse(c)
    BY <1>2 DEF CampaignLease!Lapse, Slotted
  <2>2. QED BY <2>1 DEF CampaignLease!Next
<1>3. ASSUME UNCHANGED <<campaignSlots, takenAt>>
      PROVE  UNCHANGED <<campaignSlots, Slotted>>
  BY <1>3 DEF Slotted
<1>4. ASSUME NEW d \in Dispatch, RefuseSlot(d)
      PROVE  [CampaignLease!Next]_<<campaignSlots, Slotted>>
  <2> DEFINE c == CampaignOf[d]
  <2>1. c \in Campaign /\ Fresh(campaignSlots[c]) \in SUBSET campaignSlots[c]
    BY CampaignAssumption, FreshSubset
  <2>2. /\ UNCHANGED takenAt
        /\ \/ UNCHANGED campaignSlots
           \/ campaignSlots' =
                [campaignSlots EXCEPT ![c] = Fresh(campaignSlots[c])]
    BY <1>4 DEF RefuseSlot
  <2>3. QED BY <2>1, <2>2, <1>2, <1>3
<1>5. ASSUME NEW d \in Dispatch, ZremCampaign(d) PROVE CampaignLease!Next
  BY <1>2, <1>5, CampaignAssumption DEF ZremCampaign
<1>6. QED
  BY <1>1, <1>3, <1>4, <1>5 DEF SlotStep, ZremOrg, ZremFleet, slotVars

\* The organisations' sorted sets implement the abstract leases ...
THEOREM OrgSlotsImplementLeases == Spec => OrgSlotsAreLeases
<1>1. Init => OrgLease!Init
  BY DEF Init, RedisInit, OrgLease!Init, Slotted
<1>2. TypeOK /\ SlotInv /\ [Next]_vars
         => [OrgLease!Next]_<<orgSlots, Slotted>>
  BY SlotSteps, OrgLeaseStep
<1>3. QED
  BY <1>1, <1>2, TypeCorrect, SlotsHold, PTL
     DEF Spec, OrgSlotsAreLeases, OrgLease!Spec

\* ... and so do the campaigns'.
THEOREM CampaignSlotsImplementLeases == Spec => CampaignSlotsAreLeases
<1>1. Init => CampaignLease!Init
  BY DEF Init, RedisInit, CampaignLease!Init, Slotted
<1>2. TypeOK /\ SlotInv /\ [Next]_vars
         => [CampaignLease!Next]_<<campaignSlots, Slotted>>
  BY SlotSteps, CampaignLeaseStep
<1>3. QED
  BY <1>1, <1>2, TypeCorrect, SlotsHold, PTL
     DEF Spec, CampaignSlotsAreLeases, CampaignLease!Spec
=============================================================================
