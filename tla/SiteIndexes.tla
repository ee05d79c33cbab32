---------------------------- MODULE SiteIndexes ----------------------------
(***************************************************************************)
(* The control-flow index and the channel index, kept up to date together  *)
(* with the call graph: the in-process bake and reindex_tu write to them   *)
(* directly, a warm refresh removes a set of TUs and absorbs an index      *)
(* baked aside, worker subprocesses hand theirs over as snapshot files,    *)
(* and the next start reads both back from the saved snapshot.             *)
(*                                                                         *)
(* What a TU has registered since it was last removed is remembered in     *)
(* contrib.  A full rebuild of those TUs would register exactly that.      *)
(***************************************************************************)
EXTENDS ControlFlowIndex

CONSTANTS
  Contexts,     \* [caller, callee, site, scopes, guards, locals, attr] a visitor may add
  Untagged,     \* those of them added without naming a TU
  ChannelKeys,  \* [channel, site, fn, op] a visitor may add
  MaxSteps,     \* bound: registrations
  MaxRemovals   \* bound: removals, compactions and restarts

ASSUME TUsAssumption == IsFiniteSet(TUs) /\ NoTU \notin TUs
ASSUME ContextsAssumption ==
  /\ Untagged \subseteq Contexts
  /\ \A c \in Contexts :
       c \in [caller : Fns, callee : Fns, site : Sites, scopes : {c.scopes}, guards : {c.guards},
             locals : Seq(ToSet(c.locals)), attr : {c.attr}]
ASSUME ChannelKeysAssumption ==
  /\ ChannelKeys \cap Contexts = {}
  /\ \A k \in ChannelKeys : k.fn \in Fns
(* A function whose usr could not be formed goes by its name; nothing else   *)
(* has that name.                                                            *)
ASSUME NamesAssumption == \A x, y \in Fns : display[x] = y => x = y

INSTANCE ChannelIndex

VARIABLES
  contexts, channels,          \* the two indexes
  freshContexts, freshChannels,\* a bake not absorbed yet
  contrib, pending,            \* what each TU registered in the one and the other
  blurred,                     \* channel sites that two TUs of one absorbed bake shared
  steps, removals

vars == <<contexts, channels, freshContexts, freshChannels, contrib, pending, blurred,
          steps, removals>>

Owners == TUs \cup {NoTU}
None   == [t \in Owners |-> <<>>]

Init ==
  /\ contexts = EmptyIndex /\ channels = EmptyChannels
  /\ freshContexts = EmptyIndex /\ freshChannels = EmptyChannels
  /\ contrib = None /\ pending = None /\ blurred = {}
  /\ steps = 0 /\ removals = 0

(* What the visitor registers while it walks a TU.                           *)
Owner(tu, item) == IF item \in Untagged THEN NoTU ELSE tu
Items(tu) == ChannelKeys \cup {c \in Contexts : c \in Untagged => siteFile[c.site] = tu}

Bake(tu, item) ==
  /\ steps < MaxSteps
  /\ contexts' = IF item \in Contexts THEN AddContext(contexts, item, Owner(tu, item)) ELSE contexts
  /\ channels' = IF item \in ChannelKeys THEN AddSite(channels, item, tu) ELSE channels
  /\ contrib' = [contrib EXCEPT ![Owner(tu, item)] = Append(@, item)]
  /\ steps' = steps + 1
  /\ UNCHANGED <<freshContexts, freshChannels, pending, blurred, removals>>

BakeAside(tu, item) ==
  /\ steps < MaxSteps
  /\ freshContexts' = IF item \in Contexts THEN AddContext(freshContexts, item, Owner(tu, item))
                      ELSE freshContexts
  /\ freshChannels' = IF item \in ChannelKeys THEN AddSite(freshChannels, item, tu)
                      ELSE freshChannels
  /\ pending' = [pending EXCEPT ![Owner(tu, item)] = Append(@, item)]
  /\ steps' = steps + 1
  /\ UNCHANGED <<contexts, channels, contrib, blurred, removals>>

(* The order in which a snapshot's writer meets the TUs.                     *)
Orders == SetToSeqs(TUs)

Absorbed(newContexts, newChannels) ==
  /\ contexts' = Absorb(contexts, newContexts)
  /\ channels' = AbsorbSites(channels, newChannels)
  /\ contrib' = [t \in Owners |-> contrib[t] \o pending[t]]
  /\ blurred' = blurred \cup
       {k \in ChannelKeys : Cardinality({t \in TUs : Contains(pending[t], k)}) > 1}
  /\ freshContexts' = EmptyIndex /\ freshChannels' = EmptyChannels /\ pending' = None
  /\ UNCHANGED <<steps, removals>>

AbsorbFresh == pending # None /\ Absorbed(freshContexts, freshChannels)

AbsorbShardFile(order) ==
  /\ pending # None
  /\ Sound(SaveContexts(freshContexts))
  /\ Absorbed(LoadContexts(SaveContexts(freshContexts), TRUE),
              LoadSites(SaveSites(freshChannels, order), TRUE))

Drop(S) ==
  /\ removals < MaxRemovals
  /\ contexts' = RemoveTUs(contexts, S)
  /\ channels' = RemoveSites(channels, S)
  /\ contrib' = [t \in Owners |->
                   IF t \in S THEN <<>>
                   ELSE IF t = NoTU THEN Only(contrib[t], LAMBDA c : siteFile[c.site] \notin S)
                   ELSE contrib[t]]
  /\ removals' = removals + 1
  /\ UNCHANGED <<freshContexts, freshChannels, pending, blurred, steps>>

CompactBoth ==
  /\ removals < MaxRemovals
  /\ contexts' = Compact(contexts) /\ channels' = CompactSites(channels)
  /\ removals' = removals + 1
  /\ UNCHANGED <<freshContexts, freshChannels, contrib, pending, blurred, steps>>

(* A restart: both indexes come back from the file; a bake aside is lost.    *)
Restart(order) ==
  /\ removals < MaxRemovals
  /\ Sound(SaveContexts(contexts))
  /\ contexts' = LoadContexts(SaveContexts(contexts), TRUE)
  /\ channels' = LoadSites(SaveSites(channels, order), TRUE)
  /\ freshContexts' = EmptyIndex /\ freshChannels' = EmptyChannels /\ pending' = None
  /\ removals' = removals + 1
  /\ UNCHANGED <<contrib, blurred, steps>>

Next ==
  \/ \E tu \in TUs : \E item \in Items(tu) : Bake(tu, item) \/ BakeAside(tu, item)
  \/ AbsorbFresh
  \/ \E order \in Orders : AbsorbShardFile(order) \/ Restart(order)
  \/ \E S \in SUBSET TUs \ {{}} : Drop(S)
  \/ CompactBoth

Spec == Init /\ [][Next]_vars
-----------------------------------------------------------------------------
(* A context as a query shows it when TU t registered it.                    *)
Shown(c, t) ==
  [caller |-> c.caller, callee |-> c.callee, callerName |-> display[c.caller],
   calleeName |-> display[c.callee], site |-> c.site, tu |-> t,
   scopes |-> c.scopes, guards |-> c.guards, locals |-> c.locals, attr |-> c.attr]

\* The stored contexts are those a full rebuild would store, each as often,
\* with the try scopes, the guards and the live locals it was registered
\* with: interned ids mean the same after an absorb (ControlFlowIndex.cpp:
\* 419-422), a removal and a restart.
ContextsMatchRebuild ==
  /\ \A t \in Owners, c \in Contexts :
       Times(Shown(c, t), AllContexts(contexts)) = Times(c, contrib[t])
  /\ ToSet(AllContexts(contexts)) \subseteq {Shown(c, t) : c \in Contexts, t \in Owners}
  /\ contexts.live = Cardinality(LiveContexts(contexts))
  /\ Sound(SaveContexts(contexts))

TimesRegistered(k) == Occurrences(k, contrib, TUs)

(* The sites of a set of keys are those of a rebuild, with as many           *)
(* registrations.                                                            *)
RebuiltSites(K) ==
  \A k \in K : LET stored == {i \in LiveSites(channels) : channels.sites[i].key = k}
               IN /\ Cardinality(stored) = IF TimesRegistered(k) > 0 THEN 1 ELSE 0
                  /\ \A i \in stored : channels.sites[i].refs = TimesRegistered(k)

\* A producer or consumer site is stored once and as long as some TU that
\* registered it is indexed ("other contributors remain", ChannelIndex.cpp:
\* 193), restarts and absorbed bakes included, unless an absorbed bake held
\* it for two TUs.
ChannelSitesMatchRebuild == RebuiltSites(ChannelKeys \ blurred)

\* "this index's own dedup/refcount/byTu_ bookkeeping ends up identical to
\* what it would be had those registrations happened directly against
\* `this`" (ChannelIndex.cpp:165-167).
AllChannelSitesMatchRebuild == RebuiltSites(ChannelKeys)

(* What the queries of a control-flow index must answer, read off the list   *)
(* of all contexts.                                                          *)
CalledAs(all, n)  == Only(all, LAMBDA c : n \in {c.callee, c.calleeName})
CallingAs(all, n) == Only(all, LAMBDA c : n \in {c.caller, c.callerName})
MadeAt(all, s)    == Only(all, LAMBDA c : c.site = s)
InTries(all)      == Only(all, LAMBDA c : c.scopes # <<>>)
OutsideTries(all) == Only(all, LAMBDA c : c.scopes = <<>>)

ContextLookupsExact(ix) ==
  LET all == AllContexts(ix)
  IN /\ \A n \in Fns \cup Names :
          /\ ContextsForCallee(ix, n) = CalledAs(all, n)
          /\ ContextsForCaller(ix, n) = CallingAs(all, n)
          /\ ProtectedCallsTo(ix, n) = InTries(CalledAs(all, n))
          /\ UnprotectedCallsTo(ix, n) = OutsideTries(CalledAs(all, n))
          /\ \A s \in Sites :
               ContextAtSiteIn(ix, s, n) = FirstOf(CallingAs(MadeAt(all, s), n))
     /\ \A s \in Sites :
          /\ ContextsAtSite(ix, s) = MadeAt(all, s)
          /\ ContextAtSite(ix, s) = FirstOf(MadeAt(all, s))

OnChannel(all, c, op) == Only(all, LAMBDA k : k.channel = c /\ k.op = op)
TouchedBy(all, n)     == Only(all, LAMBDA k : n \in {k.fn, display[k.fn]})

ChannelLookupsExact(ch) ==
  LET all == AllSites(ch)
      ids == {k.channel : k \in ChannelKeys}
  IN /\ ch.live = Len(all)
     /\ AllChannelIds(ch) = {k.channel : k \in ToSet(all)}
     /\ \A c \in ids :
          /\ ProducersOf(ch, c) = OnChannel(all, c, "produce")
          /\ ConsumersOf(ch, c) = OnChannel(all, c, "consume")
     /\ \A n \in Fns \cup Names : SitesForFunction(ch, n) = TouchedBy(all, n)

\* Every lookup, by usr, by display name, by call site and by channel,
\* answers exactly what a scan of all live entries would, in the same order:
\* after removals and compaction no list misses an entry or names a
\* tombstone, and an index loaded read-only answers like the one saved.
LookupsExact ==
  /\ ContextLookupsExact(contexts)
  /\ ContextLookupsExact(LoadContexts(SaveContexts(contexts), FALSE))
  /\ ChannelLookupsExact(channels)
  /\ ChannelLookupsExact(LoadSites(SaveSites(channels, SetToSeq(TUs)), FALSE))

\* Compaction and a restart change no answer.
MaintenanceKeepsAnswers ==
  [][contrib' = contrib =>
       /\ AllContexts(contexts') = AllContexts(contexts)
       /\ AllSites(channels') = AllSites(channels)]_vars
=============================================================================
