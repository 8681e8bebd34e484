---------------------------- MODULE RateLimiter ----------------------------
(* The Redis state of apps/api/app/services/call_concurrency and the       *)
(* scripts that RateLimiter runs on it.  Redis executes a Lua script or a  *)
(* single command atomically, so each operator below is one indivisible    *)
(* state change; CallDispatch puts them in the order the API and the       *)
(* workers issue them.                                                     *)
(*                                                                         *)
(* A dispatch is one attempt of the campaign dispatcher to place one call. *)
(* The slot id (a fresh uuid) and the call id (a fresh uuid) it obtains    *)
(* belong to it alone, so a dispatch also stands for its slot and call.    *)
EXTENDS Naturals, FiniteSets

CONSTANTS
    Org, Campaign, Number,   \* organisations, campaigns, caller ids
    Dispatch,                \* attempts to place a call
    OrgOf,                   \* [Campaign -> Org]
    CampaignOf,              \* [Dispatch -> Campaign]
    Numbers,                 \* [Campaign -> SUBSET Number], _resolve_from_numbers
    OrgLimit,                \* [Org -> Nat], concurrent_call_limit
    Capped,                  \* the campaigns whose max_concurrency is set ...
    CampaignLimit,           \* ... and its value
    StaleAfter,              \* stale_call_timeout
    NumberMapTTL,            \* lifetime of call_from_number:{call_id}
    NoNumber                 \* no caller id taken from the pool

ASSUME CampaignAssumption ==
    /\ OrgOf \in [Campaign -> Org]
    /\ CampaignOf \in [Dispatch -> Campaign]
    /\ Numbers \in [Campaign -> SUBSET Number]
    /\ Capped \subseteq Campaign
    /\ NoNumber \notin Number
ASSUME LimitAssumption ==
    /\ OrgLimit \in [Org -> Nat]
    /\ CampaignLimit \in [Campaign -> Nat]
ASSUME TimeoutAssumption ==
    /\ StaleAfter \in Nat \ {0}
    /\ NumberMapTTL \in Nat
ASSUME DispatchAssumption == IsFiniteSet(Dispatch)

VARIABLES
    now,            \* time.time(), in an abstract unit
    orgSlots,       \* concurrent_calls:{org_id}
    campaignSlots,  \* concurrent_calls:campaign:{campaign_id}
    fleetSlots,     \* concurrent_calls_fleet
    takenAt,        \* the score of a slot in those sorted sets, 0 if never added
    slotMap,        \* call_slot_mapping:{call_id}: when it was stored, 0 if absent
    numberScore,    \* from_number_pool:{org}:agent:{agent}: 0 free, else when taken
    number,         \* the caller id a dispatch took from the pool
    numberMap       \* call_from_number:{call_id}: when it was stored, 0 if absent

slotVars == <<orgSlots, campaignSlots, fleetSlots, takenAt>>
poolVars == <<numberScore, number>>

OrgOfDispatch(d) == OrgOf[CampaignOf[d]]

RedisTypeOK ==
    /\ now \in Nat \ {0}
    /\ orgSlots \in [Org -> SUBSET Dispatch]
    /\ campaignSlots \in [Campaign -> SUBSET Dispatch]
    /\ fleetSlots \subseteq Dispatch
    /\ takenAt \in [Dispatch -> Nat]
    /\ slotMap \in [Dispatch -> Nat]
    /\ numberScore \in [Number -> Nat]
    /\ number \in [Dispatch -> Number \union {NoNumber}]
    /\ numberMap \in [Dispatch -> Nat]

RedisInit ==
    /\ now = 1
    /\ orgSlots = [o \in Org |-> {}]
    /\ campaignSlots = [c \in Campaign |-> {}]
    /\ fleetSlots = {}
    /\ takenAt = [d \in Dispatch |-> 0]
    /\ slotMap = [d \in Dispatch |-> 0]
    /\ numberScore = [n \in Number |-> 0]
    /\ number = [d \in Dispatch |-> NoNumber]
    /\ numberMap = [d \in Dispatch |-> 0]

----------------------------------------------------------------------------
\* Slots

\* Mutant: the cutoff is a unit too late, so slots are trimmed while still fresh.
FreshTooShort(S) == {d \in S : takenAt[d] + StaleAfter > now + 1}

\* ZREMRANGEBYSCORE key 0 now-stale_call_timeout: what the trim keeps.
Fresh(S) == {d \in S : takenAt[d] + StaleAfter > now}

\* The dispatcher passes None when max_concurrency is unset; the script gets 0.
ScopeMax(c) == IF c \in Capped THEN CampaignLimit[c] ELSE 0

\* Mutants: the comparisons with the caps are off by one.
OrgHasRoomOffByOne(o) == Cardinality(Fresh(orgSlots[o])) <= OrgLimit[o]
CampaignHasRoomOffByOne(c) == Cardinality(Fresh(campaignSlots[c])) <= ScopeMax(c)

OrgHasRoom(o) == Cardinality(Fresh(orgSlots[o])) < OrgLimit[o]
CampaignHasRoom(c) == Cardinality(Fresh(campaignSlots[c])) < ScopeMax(c)

\* Mutant: the organisation's cap is not checked when a scope is given.
GrantSlotScopeOnly(d) ==
    LET c == CampaignOf[d]
        o == OrgOf[c]
    IN  /\ CampaignHasRoom(c)
        /\ orgSlots' = [orgSlots EXCEPT ![o] = Fresh(@) \union {d}]
        /\ campaignSlots' = [campaignSlots EXCEPT ![c] = Fresh(@) \union {d}]
        /\ fleetSlots' = Fresh(fleetSlots) \union {d}
        /\ takenAt' = [takenAt EXCEPT ![d] = now]

\* Mutant: fresh slots are counted, but stale ones are not removed.
GrantSlotUntrimmed(d) ==
    LET c == CampaignOf[d]
        o == OrgOf[c]
    IN  /\ OrgHasRoom(o)
        /\ CampaignHasRoom(c)
        /\ orgSlots' = [orgSlots EXCEPT ![o] = @ \union {d}]
        /\ campaignSlots' = [campaignSlots EXCEPT ![c] = @ \union {d}]
        /\ fleetSlots' = fleetSlots \union {d}
        /\ takenAt' = [takenAt EXCEPT ![d] = now]

\* The script grants: it trims and extends all three sets.
GrantSlot(d) ==
    LET c == CampaignOf[d]
        o == OrgOf[c]
    IN  /\ OrgHasRoom(o)
        /\ CampaignHasRoom(c)
        /\ orgSlots' = [orgSlots EXCEPT ![o] = Fresh(@) \union {d}]
        /\ campaignSlots' = [campaignSlots EXCEPT ![c] = Fresh(@) \union {d}]
        /\ fleetSlots' = Fresh(fleetSlots) \union {d}
        /\ takenAt' = [takenAt EXCEPT ![d] = now]

\* The script refuses on the first full set, having trimmed what it looked at.
RefuseSlot(d) ==
    LET c == CampaignOf[d]
        o == OrgOf[c]
    IN  /\ \/ ~OrgHasRoom(o) /\ UNCHANGED campaignSlots
           \/ /\ OrgHasRoom(o)
              /\ ~CampaignHasRoom(c)
              /\ campaignSlots' = [campaignSlots EXCEPT ![c] = Fresh(@)]
        /\ orgSlots' = [orgSlots EXCEPT ![o] = Fresh(@)]
        /\ UNCHANGED <<fleetSlots, takenAt>>

\* Mutant: the release drops the whole key.
DelOrg(d) ==
    /\ orgSlots' = [orgSlots EXCEPT ![OrgOfDispatch(d)] = {}]
    /\ UNCHANGED <<campaignSlots, fleetSlots, takenAt>>

\* Mutant: the member is not the one that was added, so ZREM finds nothing.
ZremFleetWrongMember(d) == UNCHANGED slotVars

\* The three ZREMs of release_concurrent_slot, each a command of its own.
ZremOrg(d) ==
    /\ orgSlots' = [orgSlots EXCEPT ![OrgOfDispatch(d)] = @ \ {d}]
    /\ UNCHANGED <<campaignSlots, fleetSlots, takenAt>>

ZremFleet(d) ==
    /\ fleetSlots' = fleetSlots \ {d}
    /\ UNCHANGED <<orgSlots, campaignSlots, takenAt>>

ZremCampaign(d) ==
    /\ campaignSlots' = [campaignSlots EXCEPT ![CampaignOf[d]] = @ \ {d}]
    /\ UNCHANGED <<orgSlots, fleetSlots, takenAt>>

\* call_slot_mapping expires StaleAfter after it was stored.
SlotMapped(d) == slotMap[d] # 0 /\ now < slotMap[d] + StaleAfter
StoreSlotMap(d) == ~SlotMapped(d) /\ slotMap' = [slotMap EXCEPT ![d] = now]
DeleteSlotMap(d) == slotMap' = [slotMap EXCEPT ![d] = 0]

----------------------------------------------------------------------------
\* The exclusive from-number pool of a campaign's agent

\* _uses_exclusive_from_number_pool
Pooled(d) == Cardinality(Numbers[CampaignOf[d]]) > 1

\* What the acquire script finds free once it has reset the stale numbers.
IsStale(n) == numberScore[n] # 0 /\ numberScore[n] + StaleAfter <= now
Available(d) ==
    {n \in Numbers[CampaignOf[d]] : numberScore[n] = 0 \/ IsStale(n)}

\* acquire_from_number: reset the stale numbers, mark a free one as taken.
TakeNumber(d) ==
    \E n \in Available(d) :
        /\ number' = [number EXCEPT ![d] = n]
        /\ numberScore' =
             [m \in Number |->
                IF m = n THEN now
                ELSE IF m \in Available(d) THEN 0
                ELSE numberScore[m]]

\* release_from_number: the number is free again, whoever holds it.
FreeNumber(d) ==
    /\ numberScore' = [n \in Number |-> IF n = number[d] THEN 0
                                        ELSE numberScore[n]]
    /\ UNCHANGED number

NumberMapped(d) == numberMap[d] # 0 /\ now < numberMap[d] + NumberMapTTL
StoreNumberMap(d) == numberMap' = [numberMap EXCEPT ![d] = now]
DeleteNumberMap(d) == numberMap' = [numberMap EXCEPT ![d] = 0]
============================================================================
