----------------------------- MODULE Aggregator -----------------------------
(***************************************************************************)
(* diagnostic_aggregator: the node that sorts what comes on /diagnostics   *)
(* into its analyzers and publishes one level for everything.  It runs on  *)
(* a single-threaded executor, so its callbacks are atomic.                *)
(***************************************************************************)
EXTENDS Integers, SequencesExt

CONSTANTS
  Name,          \* status names
  Leaf,          \* namespaces of analyzers of statuses
  Group,         \* namespaces of AnalyzerGroups
  Kind,          \* a leaf's type: generic, discard or ignore
  Matches,       \* the names that a leaf's parameters match
  Timeout,       \* its timeout, 0 for none
  DiscardStale,  \* its discard_stale
  NumItems,      \* its num_items
  Members,       \* the leaves of a group, by name
  Early,         \* the namespaces with a parameter that sorts before "path"
  Other,         \* the analyzer of what nothing else has taken
  OtherTimeout,  \* 5 s
  OtherAsErrors, Critical, BasePath,
  Config,        \* the analyzers the parameters may list, by name
  PubPeriod,     \* 1 / pub_rate
  PubLate,       \* bound on how late the timer is served
  NotCached

AggregatorAssumption ==
  /\ IsFiniteSet(Leaf) /\ Leaf \cap Group = {} /\ Other \notin Leaf \cup Group
  /\ Kind \in [Leaf -> {"generic", "discard", "ignore"}] /\ Matches \in [Leaf -> SUBSET Name]
  /\ Timeout \in [Leaf -> Nat] /\ OtherTimeout \in Nat \ {0}
  /\ DiscardStale \in [Leaf -> BOOLEAN] /\ NumItems \in [Leaf -> Int]
  /\ Early \subseteq Leaf \cup Group
  /\ Members \in [Group -> Seq(Leaf)] /\ Config \subseteq Seq(Leaf \cup Group)
  /\ {OtherAsErrors, Critical, BasePath} \subseteq BOOLEAN
  /\ PubPeriod \in Nat \ {0} /\ PubLate \in Nat

VARIABLES
  loaded,        \* analyzers_ of the root group: type and namespace
  failed,        \* its aux_items_ are not empty
  items,         \* items_ of every analyzer: the age and level of names
  cache,         \* matched_: the leaves that match a name
  lastTop,       \* last_top_level_state_
  sincePublish,  \* age of the timer's period
  latest         \* history: the last status of each name since the analyzers
                 \* were made

aggregatorVars == <<loaded, failed, items, cache, lastTop, sincePublish, latest>>

OK == 0
Error == 2
Stale == 3
Analyzer == Leaf \cup {Other}
Empty == [n \in {} |-> 0]

TypeOf(a) == IF a \in Group THEN "group" ELSE Kind[a]
Own(a) == [type |-> TypeOf(a), of |-> a]

(* AnalyzerGroup::init: the types and namespaces that are tried, when some *)
(* inits succeed.  An init that fails leaves its type behind, and with it   *)
(* its path, the base path unless it is a group: the next namespace is     *)
(* first tried with that type, once its parameters give it a path.  If     *)
(* that takes the namespace's own path away, its own type is not tried but *)
(* left behind in turn.                                                    *)
Nothing == [type |-> "none", path |-> FALSE]
LeftBehind(a, base) == [type |-> TypeOf(a), path |-> base \/ a \in Group]

Load(a, left, inits, base) ==
  LET again == [type |-> left.type, of |-> a]
      skipped ==
        /\ left # Nothing /\ ~(a \in Early /\ left.path)
        /\ again \in inits \/ ~(base \/ left.type = "group")
  IN  [tried |-> {e \in {again, Own(a)} : (e = again /\ left # Nothing) \/ (e = Own(a) /\ ~skipped)},
       left |-> IF skipped THEN [type |-> TypeOf(a), path |-> FALSE]
                ELSE IF Own(a) \in inits THEN Nothing
                ELSE LeftBehind(a, base)]

Tries(namespaces, inits, base) ==
  LET upTo[k \in 0 .. Len(namespaces)] ==
        IF k = 0 THEN [tried |-> {}, left |-> Nothing]
        ELSE LET step == Load(namespaces[k], upTo[k - 1].left, inits, base)
             IN  [step EXCEPT !.tried = @ \cup upTo[k - 1].tried]
  IN  upTo[Len(namespaces)].tried

(* GenericAnalyzer::init: something must be matched; "expected" is not.    *)
LeafInits ==
  {init \in [type : {"generic", "discard", "ignore"}, of : Leaf] :
     init.type = "ignore" \/ Matches[init.of] # {}}

GroupInits(g) ==
  LET tries == Tries(Members[g], LeafInits, TRUE) IN tries # {} /\ tries \subseteq LeafInits

RootInits == LeafInits \cup {Own(g) : g \in {h \in Group : GroupInits(h)}}

(* The leaves of an entry whose type is among some. *)
Leaves(entry, types) ==
  IF entry.of \in Group THEN {l \in ToSet(Members[entry.of]) : Kind[l] \in types}
  ELSE {l \in {entry.of} : entry.type \in types}

LoadedLeaves(types) == UNION {Leaves(entry, types) : entry \in loaded}
MatchedBy(name) == {l \in LoadedLeaves({"generic", "discard"}) : name \in Matches[l]}

-----------------------------------------------------------------------------
(* What an analyzer reports of the items it holds.                         *)
TimeoutOf(l) == IF l = Other THEN OtherTimeout ELSE Timeout[l]
Discards(l) == l = Other \/ (DiscardStale[l] /\ Timeout[l] > 0)
IsStale(l, item) == TimeoutOf(l) > 0 /\ item.age > TimeoutOf(l)

Kept(l, held) ==
  IF Discards(l)
  THEN [n \in {m \in DOMAIN held : ~IsStale(l, held[m])} |-> held[n]]
  ELSE held

ItemLevels(l, held) == {IF IsStale(l, held[n]) THEN Stale ELSE held[n].level : n \in DOMAIN held}

RolledFresh(levels) == Max({OK} \cup (levels \ {Stale}))

(* Stale counts as an error unless everything is. *)
Rolled(levels) ==
  IF Stale \in levels /\ levels # {Stale} THEN Error ELSE Max({OK} \cup levels)

Header(l, held) ==
  LET levels == ItemLevels(l, held)
      rolled == IF levels \subseteq {Stale}
                THEN IF Discards(l) THEN OK ELSE Stale
                ELSE Rolled(levels)
      expected == IF l = Other THEN -1 ELSE NumItems[l]
  IN  IF expected > 0 /\ Cardinality(DOMAIN held) # expected THEN Max({Error, rolled})
      ELSE IF expected = 0 /\ held = Empty THEN OK
      ELSE rolled

LeafLevels(l, held) == {Header(l, held)} \cup ItemLevels(l, held)

OtherLevels(held) ==
  IF held = Empty THEN {}
  ELSE ItemLevels(Other, held) \cup
       {IF OtherAsErrors THEN Error ELSE Header(Other, held)}

Reporting(entry) == Leaves(entry, {"generic"})

Headers(entry, all) ==
  LET headers == {Header(l, all[l]) : l \in Reporting(entry)}
  IN  IF entry.of \in Group THEN {Rolled(headers)} ELSE headers

Levels(entry, all) ==
  Headers(entry, all) \cup UNION {LeafLevels(l, all[l]) : l \in Reporting(entry)}

RootLevels(all) ==
  IF loaded = {} THEN {Error}
  ELSE (UNION {Levels(entry, all) : entry \in loaded})
         \cup (IF BasePath
               THEN {Rolled(UNION {Headers(entry, all) : entry \in loaded})} ELSE {})
         \cup (IF failed THEN {Stale} ELSE {})

TopLevel(levels) == IF levels = {} THEN Error ELSE Rolled(levels)

-----------------------------------------------------------------------------
LoadFrom(config) ==
  /\ loaded' = Tries(config, RootInits, BasePath) \cap RootInits
  /\ failed' = ~(Tries(config, RootInits, BasePath) \subseteq RootInits)
  /\ items' = [l \in Analyzer |-> Empty]
  /\ latest' = Empty

(* Mutant: the matches of the old analyzers stay. *)
MakeKeepingMatches(config) ==
  /\ LoadFrom(config)
  /\ cache' = cache

(* initAnalyzers: new analyzers know no item and no match. *)
MakeAnalyzers(config) ==
  /\ LoadFrom(config)
  /\ cache' = [n \in Name |-> NotCached]

Init ==
  /\ \E config \in Config :
       /\ loaded = Tries(config, RootInits, BasePath) \cap RootInits
       /\ failed = ~(Tries(config, RootInits, BasePath) \subseteq RootInits)
  /\ items = [l \in Analyzer |-> Empty]
  /\ cache = [n \in Name |-> NotCached]
  /\ latest = Empty
  /\ lastTop = Stale
  /\ sincePublish = 0

(* parameterCallback, when a parameter is new. *)
Reload ==
  /\ \E config \in Config : MakeAnalyzers(config)
  /\ UNCHANGED <<lastTop, sincePublish>>

(* publishData, with the items given; analyzers drop what they discard. *)
PublishData(all) ==
  LET kept == [l \in Analyzer |-> Kept(l, all[l])]
  IN  /\ items' = kept
      /\ lastTop' = TopLevel(RootLevels(kept) \cup OtherLevels(kept[Other]))

Publish ==
  /\ sincePublish >= PubPeriod
  /\ PublishData(items)
  /\ sincePublish' = 0
  /\ UNCHANGED <<loaded, failed, cache, latest>>

Targets(name) ==
  LET matched == IF cache[name] = NotCached THEN MatchedBy(name) ELSE cache[name]
  IN  IF matched = {} THEN {Other} ELSE matched

(* The statuses of a message that bear a name, the last of them last. *)
Named(message) == {status.name : status \in ToSet(message)}
LastOf(message, n) == message[Max({k \in DOMAIN message : message[k].name = n})]

Hold(held, message, names) ==
  [n \in DOMAIN held \cup names |->
     IF n \in names THEN [level |-> LastOf(message, n).level, age |-> 0] ELSE held[n]]

Analyze(message) ==
  [l \in Analyzer |-> Hold(items[l], message, {n \in Named(message) : l \in Targets(n)})]

(* diagCallback: the statuses of a message, and at once the level if one of *)
(* them is worse and the aggregator is critical; its timer runs on.         *)
Receive(message) ==
  /\ cache' = [n \in Name |-> IF n \in Named(message) /\ loaded # {}
                              THEN Targets(n) \ {Other} ELSE cache[n]]
  /\ latest' = Hold(latest, message, Named(message))
  /\ IF Critical /\ \E status \in ToSet(message) : status.level > lastTop
     THEN PublishData(Analyze(message))
     ELSE items' = Analyze(message) /\ UNCHANGED lastTop
  /\ UNCHANGED <<loaded, failed, sincePublish>>

PublishDue == sincePublish >= PubPeriod + PubLate

(* Ages are told apart up to the longest timeout. *)
MaxItemAge == Max({Timeout[l] : l \in Leaf} \cup {OtherTimeout}) + 1
Older(held) == [n \in DOMAIN held |-> [held[n] EXCEPT !.age = Min({@ + 1, MaxItemAge})]]

Age ==
  /\ items' = [l \in Analyzer |-> Older(items[l])]
  /\ latest' = Older(latest)
  /\ sincePublish' = sincePublish + 1
  /\ UNCHANGED <<loaded, failed, cache, lastTop>>

-----------------------------------------------------------------------------
IsHeld(held) ==
  /\ DOMAIN held \subseteq Name
  /\ \A n \in DOMAIN held : held[n] \in [level : OK .. Stale, age : 0 .. MaxItemAge]

TypeOK ==
  /\ loaded \subseteq [type : {"generic", "discard", "ignore", "group"}, of : Leaf \cup Group]
  /\ failed \in BOOLEAN
  /\ DOMAIN items = Analyzer /\ \A l \in Analyzer : IsHeld(items[l])
  /\ IsHeld(latest)
  /\ cache \in [Name -> (SUBSET Leaf) \cup {NotCached}]
  /\ lastTop \in OK .. Stale
  /\ sincePublish \in 0 .. PubPeriod + PubLate

(* README.md of the aggregator: each status is analyzed by the analyzers   *)
(* that match its name, and by Other if none does.  Whatever parameters    *)
(* come and whatever was cached before, an analyzer holds exactly the      *)
(* names that are its own, each with the last status that came; only one   *)
(* that discards may lack a stale one.                                     *)
Routed ==
  \A l \in Analyzer, n \in Name :
    LET owns == l \in (IF MatchedBy(n) = {} THEN {Other} ELSE MatchedBy(n))
    IN  /\ n \in DOMAIN items[l] => owns /\ n \in DOMAIN latest /\ items[l][n] = latest[n]
        /\ owns /\ n \in DOMAIN latest =>
             n \in DOMAIN items[l] \/ (Discards(l) /\ IsStale(l, latest[n]))
=============================================================================
