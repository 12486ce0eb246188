------------------------------ MODULE Attention ------------------------------
(***************************************************************************)
(* Research Attention: issues that must stay visible.  Before any map is   *)
(* activated the Project Config's baseline is in force; afterwards the     *)
(* active map, complete in itself.  A map is proposed from what is in      *)
(* force, stored for good, and activated only while what it was made from  *)
(* still is; the Project Config may be advanced to another generation when *)
(* nobody has the workspace open.                                          *)
(***************************************************************************)
EXTENDS Naturals, Sequences, FiniteSets

CONSTANTS
    Actors,
    Configs,        \* Project Config digests
    FirstConfig,
    Baseline,       \* the issues each Config sets out with: numbers up to 0
    Questions,
    None,
    MaxMaps,        \* bound on the maps stored
    MaxAdvances     \* bound on the Profile advancements

VARIABLES
    config,         \* the Config in force
    approved,       \* the Questions that are approved or revised
    events,         \* the recorded Profile advancements, <<old, new>>, in order
    maps,           \* the maps stored, in order
    activations,    \* the activation events, in order: [map, prior]
    active,         \* the map in force, or None
    job             \* what each actor is doing

vars == <<config, approved, events, maps, activations, active, job>>

Idle == [at |-> "idle"]

Issue(links) == [disposition |-> "active", links |-> links]

-----------------------------------------------------------------------------
(* What is in force.                                                       *)

(* The Configs recorded as the next one of a Config.                       *)
Successors(c) == {events[i][2] : i \in {i \in DOMAIN events : events[i][1] = c}}

ConnectsAtOnce(from, to) == to \in {from} \cup Successors(from)

(* Any number of advancements leads from one Config to the other.          *)
Closed(S) == \A c \in S : Successors(c) \subseteq S

Connects(from, to) == \A S \in SUBSET Configs : from \in S /\ Closed(S) => to \in S

Readable == active # None => Connects(maps[active].config, config)

Effective ==
    IF active = None
    THEN [n \in Baseline[config] |-> Issue({})]
    ELSE maps[active].items

(* The activations of a map, and whether the last one is what the pointer  *)
(* to the active map says it is.                                           *)
ActivationsOf(m) == {i \in DOMAIN activations : activations[i].map = m}

PointerBacked ==
    active # None => ActivationsOf(active) # {} /\ active \in DOMAIN maps

-----------------------------------------------------------------------------
(* A proposal reads what is in force, changes issues or adds one, checks   *)
(* what all of them link to, and only then stores the map.                 *)

(* Every addition's identity is new.                                       *)
NextIssue ==
    1 + Cardinality(UNION ({DOMAIN maps[m].items : m \in DOMAIN maps}
                           \cup {DOMAIN job[a].items : a \in {a \in Actors : job[a].at = "storing"}})
                    \ UNION {Baseline[c] : c \in Configs})

LinksOfOne == {{}} \cup {{q} : q \in Questions}

Change(n, issue) == [number |-> n, issue |-> issue]

Added == {Change(NextIssue, Issue(links)) : links \in LinksOfOne}

Redisposed ==
    {Change(n, [Effective[n] EXCEPT !.disposition = d]) :
        n \in DOMAIN Effective, d \in {"active", "dropped"}}

Relinked == {Change(n, [Effective[n] EXCEPT !.links = links]) :
                n \in DOMAIN Effective, links \in LinksOfOne}

Changed(change) ==
    [n \in DOMAIN Effective \cup {change.number} |->
        IF n = change.number THEN change.issue ELSE Effective[n]]

ReferencesResolve(items) == \A n \in DOMAIN items : items[n].links \subseteq approved

Propose(a) ==
    /\ job[a] = Idle
    /\ Readable
    /\ Len(maps) + Cardinality({b \in Actors : job[b].at = "storing"}) < MaxMaps
    /\ \E change \in Added \cup Redisposed \cup Relinked :
        /\ ReferencesResolve(Changed(change))
        /\ job' = [job EXCEPT ![a] =
                    [at |-> "storing", config |-> config, base |-> active,
                     items |-> Changed(change), changed |-> {change.number}]]
    /\ UNCHANGED <<config, approved, events, maps, activations, active>>

StoreMap(a) ==
    /\ job[a].at = "storing"
    /\ maps' = Append(maps, [config |-> job[a].config, base |-> job[a].base,
                             items |-> job[a].items, changed |-> job[a].changed])
    /\ job' = [job EXCEPT ![a] = Idle]
    /\ UNCHANGED <<config, approved, events, activations, active>>

-----------------------------------------------------------------------------
(* Activation checks the map's Config first, and what it was made from in  *)
(* the transaction that records it.                                        *)

BaseOfItsKind(m) == maps[m].base = None <=> active = None

BaseInForce(m) == maps[m].base = active

BeginActivate(a) ==
    \E m \in DOMAIN maps :
        /\ job[a] = Idle
        /\ maps[m].config = config
        /\ job' = [job EXCEPT ![a] = [at |-> "activating", map |-> m]]
        /\ UNCHANGED <<config, approved, events, maps, activations, active>>

Activate(a) ==
    /\ job[a].at = "activating"
    /\ LET m == job[a].map IN
        /\ BaseInForce(m)
        /\ activations' = Append(activations, [map |-> m, prior |-> active])
        /\ active' = m
    /\ job' = [job EXCEPT ![a] = Idle]
    /\ UNCHANGED <<config, approved, events, maps>>

RefuseActivation(a) ==
    /\ job[a].at = "activating"
    /\ ~BaseInForce(job[a].map)
    /\ job' = [job EXCEPT ![a] = Idle]
    /\ UNCHANGED <<config, approved, events, maps, activations, active>>

-----------------------------------------------------------------------------
(* Around them: Questions are approved and closed, and the Profile is      *)
(* advanced while nobody has the workspace open.                           *)

DecideQuestion(q) ==
    /\ approved' = IF q \in approved THEN approved \ {q} ELSE approved \cup {q}
    /\ UNCHANGED <<config, events, maps, activations, active, job>>

Advance(c) ==
    /\ \A a \in Actors : job[a] = Idle
    /\ c # config
    /\ Len(events) < MaxAdvances
    /\ events' = Append(events, <<config, c>>)
    /\ config' = c
    /\ UNCHANGED <<approved, maps, activations, active, job>>

Init ==
    /\ config = FirstConfig
    /\ approved = Questions
    /\ events = <<>>
    /\ maps = <<>>
    /\ activations = <<>>
    /\ active = None
    /\ job = [a \in Actors |-> Idle]

Next ==
    \/ \E a \in Actors :
        \/ Propose(a)
        \/ StoreMap(a)
        \/ BeginActivate(a)
        \/ Activate(a)
        \/ RefuseActivation(a)
    \/ \E q \in Questions : DecideQuestion(q)
    \/ \E c \in Configs : Advance(c)

Spec == Init /\ [][Next]_vars

-----------------------------------------------------------------------------
(* Properties.                                                             *)

TypeOK ==
    /\ config \in Configs
    /\ approved \subseteq Questions
    /\ active \in DOMAIN maps \cup {None}
    /\ \A i \in DOMAIN activations : activations[i].map \in DOMAIN maps

(* An issue cannot disappear silently: of two maps activated one after the *)
(* other, by whichever actors, the later has every issue of the earlier    *)
(* one, and an issue that its own proposal did not change is as the        *)
(* earlier one has it.                                                     *)
NothingForgotten ==
    \A i \in DOMAIN activations : i > 1 =>
        LET before == maps[activations[i - 1].map].items
            after == maps[activations[i].map] IN
            \A n \in DOMAIN before :
                /\ n \in DOMAIN after.items
                /\ n \in after.changed \/ after.items[n] = before[n]

(* However often the Profile is advanced, forth and back, the active map   *)
(* stays readable, so attention stays in force and can be changed.         *)
AttentionStays == Readable /\ PointerBacked

==============================================================================
