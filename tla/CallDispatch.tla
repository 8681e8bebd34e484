---------------------------- MODULE CallDispatch ----------------------------
(* One campaign call from the dispatcher's wait for a concurrency slot to   *)
(* the reports of its end: CampaignCallDispatcher.dispatch_call in the ARQ  *)
(* workers, CallConcurrencyService, and handle_call_terminal in the API     *)
(* for every report of the call (the carrier's hangup webhook and the       *)
(* runtime's own finalize_call both send one).  Every await of the code is  *)
(* a point where the other dispatches, the reports and the clock may run.   *)
EXTENDS RateLimiter

CONSTANTS
    Reporter,   \* who reports the end of a call, once each
    Fault,      \* the faults of an instance: see FaultKind
    MaxTime     \* bound on the clock

FaultKind == {"cancel",   \* a worker's job is cancelled, or the worker dies
              "redis",    \* a Redis command raises
              "dial",     \* the provider refuses, or a row has no phone number
              "defer"}    \* a provider whose call id is known only later (VI)

ASSUME ActorAssumption == "self" \notin Reporter /\ Fault \subseteq FaultKind

VARIABLES
    pc,     \* where dispatch_call is
    call,   \* the telephone call: "none", "live" or "ended"
    rel     \* rel[d][a]: where actor a is in releasing what d holds

vars == <<now, orgSlots, campaignSlots, fleetSlots, takenAt, slotMap,
          numberScore, number, numberMap, pc, call, rel>>

\* The dispatcher releases for itself when a dial fails; a reporter otherwise.
Actor == {"self"} \union Reporter

PC == {"waiting", "refused", "held", "dialling", "dialled", "bound",
       "unwinding", "deferring", "raised", "returned", "deferred", "cancelled"}

RelPC == {"off", "org", "fleet", "campaign", "unmap",
          "numLook", "numFree", "numUnmap", "done"}

TypeOK ==
    /\ RedisTypeOK
    /\ pc \in [Dispatch -> PC]
    /\ call \in [Dispatch -> {"none", "live", "ended"}]
    /\ rel \in [Dispatch -> [Actor -> RelPC]]

Init ==
    /\ RedisInit
    /\ pc = [d \in Dispatch |-> "waiting"]
    /\ call = [d \in Dispatch |-> "none"]
    /\ rel = [d \in Dispatch |-> [a \in Actor |-> "off"]]

Go(d, to) == pc' = [pc EXCEPT ![d] = to]
RelGo(d, a, to) == rel' = [rel EXCEPT ![d][a] = to]

----------------------------------------------------------------------------
\* acquire_concurrent_slot

Acquire(d) ==
    /\ pc[d] = "waiting"
    /\ GrantSlot(d)
    /\ Go(d, "held")
    /\ UNCHANGED <<now, slotMap, poolVars, numberMap, call, rel>>

\* Refused: sleep and try again, or give up after CONCURRENT_SLOT_TIMEOUT.
Refuse(d) ==
    /\ pc[d] = "waiting"
    /\ RefuseSlot(d)
    /\ \/ UNCHANGED pc
       \/ Go(d, "refused")
    /\ UNCHANGED <<now, slotMap, poolVars, numberMap, call, rel>>

\* The script ran but its answer was lost: nobody knows the slot's id.
AcquireRaises(d) ==
    /\ "redis" \in Fault
    /\ pc[d] = "waiting"
    /\ GrantSlot(d)
    /\ Go(d, "refused")
    /\ UNCHANGED <<now, slotMap, poolVars, numberMap, call, rel>>

----------------------------------------------------------------------------
\* dispatch_call

\* Before its try block: no phone number, no caller id, or an error in the
\* pool script.  Nothing gives the slot back.
RaiseEarly(d) ==
    /\ pc[d] = "held"
    /\ \/ "dial" \in Fault
       \/ Numbers[CampaignOf[d]] = {}
       \/ Pooled(d) /\ (Available(d) = {} \/ "redis" \in Fault)
    /\ Go(d, "raised")
    /\ UNCHANGED <<now, slotVars, slotMap, poolVars, numberMap, call, rel>>

ChooseNumber(d) ==
    /\ pc[d] = "held"
    /\ Numbers[CampaignOf[d]] # {}
    /\ IF Pooled(d) THEN TakeNumber(d) ELSE UNCHANGED poolVars
    /\ Go(d, "dialling")
    /\ UNCHANGED <<now, slotVars, slotMap, numberMap, call, rel>>

\* initiate_outbound_call places the call and its call id comes back.
Dial(d) ==
    /\ pc[d] = "dialling"
    /\ call' = [call EXCEPT ![d] = "live"]
    /\ Go(d, "dialled")
    /\ UNCHANGED <<now, slotVars, slotMap, poolVars, numberMap, rel>>

\* The call is placed but has no call id yet: the slot is given back.
DialDeferred(d) ==
    /\ "defer" \in Fault
    /\ pc[d] = "dialling"
    /\ call' = [call EXCEPT ![d] = "live"]
    /\ Go(d, "deferring")
    /\ RelGo(d, "self", "org")
    /\ UNCHANGED <<now, slotVars, slotMap, poolVars, numberMap>>

\* except Exception before bind_call_slot succeeded: release_slot.
FailUnbound(d) ==
    /\ \/ pc[d] = "dialling" /\ "dial" \in Fault
       \/ pc[d] = "dialled" /\ "redis" \in Fault
    /\ Go(d, "unwinding")
    /\ RelGo(d, "self", "org")
    /\ UNCHANGED <<now, slotVars, slotMap, poolVars, numberMap, call>>

\* bind_call_slot; the call id is new, so no mapping can be there already.
Bind(d) ==
    /\ pc[d] = "dialled"
    /\ StoreSlotMap(d)
    /\ Go(d, "bound")
    /\ UNCHANGED <<now, slotVars, poolVars, numberMap, call, rel>>

Return(d) ==
    /\ pc[d] = "bound"
    /\ IF Pooled(d) THEN StoreNumberMap(d) ELSE UNCHANGED numberMap
    /\ Go(d, "returned")
    /\ UNCHANGED <<now, slotVars, slotMap, poolVars, call, rel>>

\* HSET or EXPIRE raises: except Exception with the slot bound, so
\* release_call_slot, which works from the mapping if it is still there.
FailBound(d) ==
    /\ "redis" \in Fault
    /\ pc[d] = "bound"
    /\ Pooled(d)
    /\ StoreNumberMap(d) \/ UNCHANGED numberMap
    /\ Go(d, "unwinding")
    /\ RelGo(d, "self", IF SlotMapped(d) THEN "org" ELSE "done")
    /\ UNCHANGED <<now, slotVars, slotMap, poolVars, call>>

\* The end of the except block (or of the deferred branch): the number.
Unwound(d) ==
    /\ pc[d] \in {"unwinding", "deferring"}
    /\ rel[d]["self"] = "done"
    /\ IF number[d] # NoNumber THEN FreeNumber(d) ELSE UNCHANGED poolVars
    /\ Go(d, IF pc[d] = "unwinding" THEN "raised" ELSE "deferred")
    /\ UNCHANGED <<now, slotVars, slotMap, numberMap, call, rel>>

\* CancelledError is no Exception: dispatch_call stops where it is, and the
\* provider may have placed the call that was being dialled.
Cancel(d) ==
    /\ "cancel" \in Fault
    /\ pc[d] \in {"held", "dialling", "dialled", "bound",
                  "unwinding", "deferring"}
    /\ \/ UNCHANGED call
       \/ pc[d] = "dialling" /\ call' = [call EXCEPT ![d] = "live"]
    /\ Go(d, "cancelled")
    /\ RelGo(d, "self", IF rel[d]["self"] = "off" THEN "off" ELSE "done")
    /\ UNCHANGED <<now, slotVars, slotMap, poolVars, numberMap>>

----------------------------------------------------------------------------
\* release_call_slot and release_concurrent_slot

Hangup(d) ==
    /\ call[d] = "live"
    /\ call' = [call EXCEPT ![d] = "ended"]
    /\ UNCHANGED <<now, slotVars, slotMap, poolVars, numberMap, pc, rel>>

\* Mutant: a state of the release that nothing handles.
AfterSlotLost(d, a) == IF a \in Reporter THEN "number" ELSE "done"

\* A reporter goes on to the number mapping, which only a pooled call can have.
AfterSlot(d, a) == IF a \in Reporter /\ Pooled(d) THEN "numLook" ELSE "done"

\* Mutant: the call is reported when it is answered, not when it ends.
ReportWhenAnswered(d, a) ==
    /\ a \in Reporter
    /\ call[d] # "none"
    /\ rel[d][a] = "off"
    /\ RelGo(d, a, IF SlotMapped(d) THEN "org" ELSE AfterSlot(d, a))
    /\ UNCHANGED <<now, slotVars, slotMap, poolVars, numberMap, pc, call>>

\* handle_call_terminal reads the call's slot mapping.
Report(d, a) ==
    /\ a \in Reporter
    /\ call[d] = "ended"
    /\ rel[d][a] = "off"
    /\ RelGo(d, a, IF SlotMapped(d) THEN "org" ELSE AfterSlot(d, a))
    /\ UNCHANGED <<now, slotVars, slotMap, poolVars, numberMap, pc, call>>

ReleaseOrg(d, a) ==
    /\ rel[d][a] = "org"
    /\ ZremOrg(d)
    /\ RelGo(d, a, "fleet")
    /\ UNCHANGED <<now, slotMap, poolVars, numberMap, pc, call>>

ReleaseFleet(d, a) ==
    /\ rel[d][a] = "fleet"
    /\ ZremFleet(d)
    /\ RelGo(d, a, "campaign")
    /\ UNCHANGED <<now, slotMap, poolVars, numberMap, pc, call>>

\* The dispatcher of an unbound slot has no mapping to delete.
ReleaseCampaign(d, a) ==
    /\ rel[d][a] = "campaign"
    /\ ZremCampaign(d)
    /\ RelGo(d, a, IF a = "self" /\ slotMap[d] = 0 THEN "done" ELSE "unmap")
    /\ UNCHANGED <<now, slotMap, poolVars, numberMap, pc, call>>


Unmap(d, a) ==
    /\ rel[d][a] = "unmap"
    /\ DeleteSlotMap(d)
    /\ RelGo(d, a, AfterSlot(d, a))
    /\ UNCHANGED <<now, slotVars, poolVars, numberMap, pc, call>>

\* Mutant: the failed release (None) is taken for a slot already gone (False).
ReleaseRaisesUnmaps(d, a) ==
    /\ "redis" \in Fault
    /\ rel[d][a] \in {"org", "fleet", "campaign"}
    /\ RelGo(d, a, AfterSlot(d, a))
    /\ DeleteSlotMap(d)
    /\ UNCHANGED <<now, slotVars, poolVars, numberMap, pc, call>>

\* A ZREM raises: release_concurrent_slot swallows it, release_call_slot
\* returns with the mapping in place.
ReleaseRaises(d, a) ==
    /\ "redis" \in Fault
    /\ rel[d][a] \in {"org", "fleet", "campaign"}
    /\ RelGo(d, a, AfterSlot(d, a))
    /\ UNCHANGED <<now, slotVars, slotMap, poolVars, numberMap, pc, call>>

\* Then CampaignCallDispatcher.release_call_slot returns the number.
LookUpNumber(d, a) ==
    /\ rel[d][a] = "numLook"
    /\ RelGo(d, a, IF NumberMapped(d) THEN "numFree" ELSE "done")
    /\ UNCHANGED <<now, slotVars, slotMap, poolVars, numberMap, pc, call>>

ReleaseNumber(d, a) ==
    /\ rel[d][a] = "numFree"
    /\ FreeNumber(d)
    /\ RelGo(d, a, "numUnmap")
    /\ UNCHANGED <<now, slotVars, slotMap, numberMap, pc, call>>

UnmapNumber(d, a) ==
    /\ rel[d][a] = "numUnmap"
    /\ DeleteNumberMap(d)
    /\ RelGo(d, a, "done")
    /\ UNCHANGED <<now, slotVars, slotMap, poolVars, pc, call>>

Tick ==
    /\ now < MaxTime
    /\ now' = now + 1
    /\ UNCHANGED <<slotVars, slotMap, poolVars, numberMap, pc, call, rel>>

----------------------------------------------------------------------------
DispatchStep(d) ==
    \/ Acquire(d) \/ Refuse(d) \/ AcquireRaises(d)
    \/ RaiseEarly(d) \/ ChooseNumber(d)
    \/ Dial(d) \/ DialDeferred(d) \/ FailUnbound(d)
    \/ Bind(d) \/ Return(d) \/ FailBound(d) \/ Unwound(d) \/ Cancel(d)

ReleaseStep(d, a) ==
    \/ Report(d, a)
    \/ ReleaseOrg(d, a) \/ ReleaseFleet(d, a) \/ ReleaseCampaign(d, a)
    \/ Unmap(d, a) \/ ReleaseRaises(d, a)
    \/ LookUpNumber(d, a) \/ ReleaseNumber(d, a) \/ UnmapNumber(d, a)

Next ==
    \/ \E d \in Dispatch : DispatchStep(d) \/ Hangup(d)
    \/ \E d \in Dispatch, a \in Actor : ReleaseStep(d, a)
    \/ Tick

Spec == Init /\ [][Next]_vars

----------------------------------------------------------------------------
(* Properties *)

\* The slot of d is counted against its organisation / its campaign.
InOrg(d) == d \in orgSlots[OrgOfDispatch(d)]
InCampaign(d) == d \in campaignSlots[CampaignOf[d]]
Counted(d) == InOrg(d) \/ InCampaign(d) \/ d \in fleetSlots
FreshSlot(d) == takenAt[d] # 0 /\ takenAt[d] + StaleAfter > now

\* A slot is granted only when both caps have room (call-concurrency.md:46):
\* neither sorted set ever holds more members than its cap, whatever the
\* interleaving of acquisitions, trims, releases, errors and cancellations.
CapRespected ==
    /\ \A o \in Org : Cardinality(orgSlots[o]) <= OrgLimit[o]
    /\ \A c \in Campaign : Cardinality(campaignSlots[c]) <= ScopeMax(c)

\* A call the dispatcher has placed and not given up on keeps its slot in all
\* three sets until the slot is stale: no trim, no other call's release and no
\* failed script takes the slot of a call in flight away.
LiveCallHoldsSlot ==
    \A d \in Dispatch :
        /\ call[d] = "live"
        /\ pc[d] \in {"dialled", "bound", "returned", "cancelled"}
        /\ rel[d]["self"] = "off"
        /\ FreshSlot(d)
        => InOrg(d) /\ InCampaign(d) /\ d \in fleetSlots

\* So the young calls in flight of an organisation never exceed its cap.
LiveCallsWithinCap ==
    \A o \in Org :
        Cardinality({d \in Dispatch :
            /\ OrgOfDispatch(d) = o
            /\ call[d] = "live"
            /\ pc[d] \in {"dialled", "bound", "returned"}
            /\ FreshSlot(d)}) <= OrgLimit[o]

\* The mapping goes last: while a fresh slot of a call that was handed over is
\* still counted anywhere, its mapping is there for another report to release
\* it, whichever ZREM of an earlier report failed and however reports interleave.
CountedSlotIsReleasable ==
    \A d \in Dispatch :
        pc[d] = "returned" /\ Counted(d) /\ FreshSlot(d) => SlotMapped(d)

\* A slot leaves the organisation's count only when it has gone stale or by
\* the release of that very call.
OnlyOwnerFreesSlot ==
    [][\A d \in Dispatch :
          InOrg(d) /\ ~InOrg(d)'
             => ~FreshSlot(d) \/ \E a \in Actor : rel[d][a] = "org"]_vars

\* The inductive strengthening of the three slot properties above, per
\* dispatch.  Where the control is: reports follow the end of the call, and
\* nothing has happened to a dispatch that still waits for its slot.
ControlInv(d) ==
    /\ call[d] # "ended" => \A a \in Reporter : rel[d][a] = "off"
    /\ pc[d] \in {"waiting", "refused", "held", "dialling"} => call[d] = "none"
    /\ pc[d] = "waiting" =>
          takenAt[d] = 0 /\ \A a \in Actor : rel[d][a] = "off"
    /\ pc[d] \in {"held", "dialling", "dialled", "bound", "returned"} =>
          rel[d]["self"] = "off"
    /\ pc[d] \in {"unwinding", "deferring"} => rel[d]["self"] # "off"

\* A slot nobody has begun to release is counted in all three sets.
InUse(d) ==
    /\ pc[d] \in {"held", "dialling", "dialled", "bound", "returned", "cancelled"}
    /\ \A a \in Actor : rel[d][a] = "off"

\* A release has removed the slot from the sets behind it, and for good.
ReleasedSoFar(d) ==
    \A a \in Actor :
        /\ rel[d][a] \in {"fleet", "campaign", "unmap"} => ~InOrg(d)
        /\ rel[d][a] \in {"campaign", "unmap"} => d \notin fleetSlots
        /\ rel[d][a] = "unmap" => ~InCampaign(d)

\* A bound slot has a mapping at least as young as itself until it is gone.
MappingKept(d) ==
    pc[d] \in {"bound", "returned"} =>
        \/ ~Counted(d)
        \/ slotMap[d] # 0 /\ slotMap[d] >= takenAt[d]

SlotInv ==
    \A d \in Dispatch :
        /\ ControlInv(d)
        /\ takenAt[d] <= now
        /\ InUse(d) /\ FreshSlot(d) =>
              InOrg(d) /\ InCampaign(d) /\ d \in fleetSlots
        /\ ReleasedSoFar(d)
        /\ MappingKept(d)

\* Refinement: the slots of the organisations, and those of the campaigns,
\* behave as leases; a slot is granted once and never comes back once freed.
Slotted == {d \in Dispatch : takenAt[d] # 0}

OrgLease == INSTANCE SlotLease WITH
    Pool <- Org, Holder <- Dispatch, Limit <- OrgLimit,
    held <- orgSlots, used <- Slotted

CampaignLease == INSTANCE SlotLease WITH
    Pool <- Campaign, Holder <- Dispatch,
    Limit <- [c \in Campaign |-> ScopeMax(c)],
    held <- campaignSlots, used <- Slotted

OrgSlotsAreLeases == OrgLease!Spec
CampaignSlotsAreLeases == CampaignLease!Spec
============================================================================
