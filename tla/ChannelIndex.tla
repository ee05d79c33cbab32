---------------------------- MODULE ChannelIndex ----------------------------
(***************************************************************************)
(* The index of producer and consumer sites on channels                    *)
(* (src/callgraph/ChannelIndex.cpp) as a value, with one operator per      *)
(* member function, and its section of the snapshot file.  A site is a     *)
(* record [channel, site, fn, op], which is also its key (SiteKey); its    *)
(* display name comes from the function, its guards and type labels are    *)
(* copied with it and left out.                                            *)
(***************************************************************************)
EXTENDS Naturals, SequencesExt, Listing

CONSTANTS
  TUs,       \* translation unit paths
  display    \* display[f]: the qualified name of function usr f

EmptyChannels ==
  [sites |-> <<>>, index |-> <<>>, byChannel |-> <<>>,
   byFunctionUsr |-> <<>>, byFunctionDisplay |-> <<>>,
   byTu |-> [t \in TUs |-> <<>>], live |-> 0]

LiveSites(ch) == {i \in DOMAIN ch.sites : ch.sites[i].live}

AtKey(map, k) == IF k \in DOMAIN map THEN map[k] ELSE <<>>
PushAt(map, k, i) ==
  [x \in DOMAIN map \cup {k} |-> IF x = k THEN Append(AtKey(map, k), i) ELSE map[x]]
(* Lists without the dead; a key whose list is empty is erased.              *)
ScrubKeys(map, dead) ==
  LET Alive(k) == Only(map[k], LAMBDA i : i \notin dead)
  IN [k \in {x \in DOMAIN map : Alive(x) # <<>>} |-> Alive(k)]
-----------------------------------------------------------------------------
(* A site not stored yet, with the registrations it starts with.             *)
Store(ch, k, tu, refs) ==
  LET i == Len(ch.sites) + 1
  IN [ch EXCEPT
       !.sites = Append(@, [key |-> k, tu |-> tu, refs |-> refs, live |-> TRUE]),
       !.index = [x \in DOMAIN @ \cup {k} |-> IF x = k THEN i ELSE @[x]],
       !.byChannel = PushAt(@, k.channel, i),
       !.byFunctionUsr = PushAt(@, k.fn, i),
       !.byFunctionDisplay = IF display[k.fn] # k.fn THEN PushAt(@, display[k.fn], i) ELSE @,
       !.live = @ + 1]

(* addSite, called n times in a row: an identical site gains a registration; *)
(* the TU is noted at every call, the stored site keeps the TU of the first. *)
AddTimes(ch, k, tu, n) ==
  LET known  == k \in DOMAIN ch.index
      stored == IF known THEN [ch EXCEPT !.sites[ch.index[k]].refs = @ + n]
                ELSE Store(ch, k, tu, n)
  IN [stored EXCEPT !.byTu[tu] = @ \o [m \in 1..n |-> stored.index[k]]]
AddSite(ch, k, tu) == AddTimes(ch, k, tu, 1)
-----------------------------------------------------------------------------
(* producersOf, consumersOf, sitesForFunction, allChannelIds, allSites       *)
KeysAt(ch, idxs) ==
  LET live == Only(idxs, LAMBDA i : ch.sites[i].live)
  IN [n \in DOMAIN live |-> ch.sites[live[n]].key]

OfOp(keys, op) == Only(keys, LAMBDA k : k.op = op)
ProducersOf(ch, c) == OfOp(KeysAt(ch, AtKey(ch.byChannel, c)), "produce")
ConsumersOf(ch, c) == OfOp(KeysAt(ch, AtKey(ch.byChannel, c)), "consume")
SitesForFunction(ch, name) ==
  KeysAt(ch, AtKey(ch.byFunctionUsr, name)) \o KeysAt(ch, AtKey(ch.byFunctionDisplay, name))
AllChannelIds(ch) == {c \in DOMAIN ch.byChannel : KeysAt(ch, ch.byChannel[c]) # <<>>}
AllSites(ch) == KeysAt(ch, [i \in DOMAIN ch.sites |-> i])
-----------------------------------------------------------------------------
(* absorb: a shard's site is added as often as it was registered there, each *)
(* time in the name of the one TU the stored site carries.                   *)
AbsorbSites(ch, shard) ==
  LET after[n \in 0..Len(shard.sites)] ==
        IF n = 0 THEN ch
        ELSE LET s == shard.sites[n]
             IN IF s.live THEN AddTimes(after[n-1], s.key, s.tu, s.refs) ELSE after[n-1]
  IN after[Len(shard.sites)]

(* removeTUs: every registration of a removed TU is released; the site whose *)
(* last one goes leaves the index and the lists.                             *)
Registered(ch, S, i) == Occurrences(i, ch.byTu, S)

(* The sites that go with the TUs S, and the sites after that.               *)
Spent(ch, S) == {i \in LiveSites(ch) : Registered(ch, S, i) >= ch.sites[i].refs}
Release(ch, S) ==
  [i \in DOMAIN ch.sites |->
     IF i \in Spent(ch, S) THEN [ch.sites[i] EXCEPT !.refs = 0, !.live = FALSE]
     ELSE IF ch.sites[i].live THEN [ch.sites[i] EXCEPT !.refs = @ - Registered(ch, S, i)]
     ELSE ch.sites[i]]

(* Faulty variant: a dead site stays in the dedup index.                     *)
RemoveKeepingKeys(ch, S) ==
  LET dead == Spent(ch, S)
  IN [ch EXCEPT
       !.sites = Release(ch, S),
       !.byChannel = ScrubKeys(@, dead), !.byFunctionUsr = ScrubKeys(@, dead),
       !.byFunctionDisplay = ScrubKeys(@, dead),
       !.byTu = [t \in TUs |-> IF t \in S THEN <<>> ELSE ch.byTu[t]],
       !.live = @ - Cardinality(dead)]

RemoveSites(ch, S) ==
  LET dead == Spent(ch, S)
      kept == {k \in DOMAIN ch.index : ch.index[k] \notin dead}
  IN [ch EXCEPT
       !.sites = Release(ch, S),
       !.index = [k \in kept |-> ch.index[k]],
       !.byChannel = ScrubKeys(@, dead), !.byFunctionUsr = ScrubKeys(@, dead),
       !.byFunctionDisplay = ScrubKeys(@, dead),
       !.byTu = [t \in TUs |-> IF t \in S THEN <<>> ELSE ch.byTu[t]],
       !.live = @ - Cardinality(dead)]

(* compact: live sites move together and every index is renumbered.          *)
Kept(ch) == InOrder(LiveSites(ch), Len(ch.sites))
NewPlace(ch, i) == LET kept == Kept(ch) IN CHOOSE n \in DOMAIN kept : kept[n] = i
Moved(ch, s) ==
  LET alive == Only(s, LAMBDA i : ch.sites[i].live)
  IN [n \in DOMAIN alive |-> NewPlace(ch, alive[n])]
MovedKeys(ch, map) ==
  [k \in {x \in DOMAIN map : Moved(ch, map[x]) # <<>>} |-> Moved(ch, map[k])]

CompactSites(ch) ==
  LET kept == Kept(ch)
      keys == {k \in DOMAIN ch.index : ch.sites[ch.index[k]].live}
  IN [ch EXCEPT
       !.sites = [n \in DOMAIN kept |-> ch.sites[kept[n]]],
       !.index = [k \in keys |-> NewPlace(ch, ch.index[k])],
       !.byChannel = MovedKeys(ch, @), !.byFunctionUsr = MovedKeys(ch, @),
       !.byFunctionDisplay = MovedKeys(ch, @),
       !.byTu = [t \in TUs |-> Moved(ch, ch.byTu[t])]]
-----------------------------------------------------------------------------
(* The channel section of the snapshot: each live site with its count and    *)
(* its contributors, in the order the hash map byTu_ is walked in.  A reader *)
(* takes the first contributor as the site's TU; it rebuilds byTu_ only when *)
(* the index is to be changed.                                               *)
(* The contributors of site i, each as often as it registered it.            *)
Contributors(ch, order, i) ==
  FlattenSeq([n \in DOMAIN order |->
                [m \in 1..Times(i, ch.byTu[order[n]]) |-> order[n]]])
SaveSites(ch, order) ==
  LET kept == Kept(ch)
  IN [n \in DOMAIN kept |->
        [key |-> ch.sites[kept[n]].key, refs |-> ch.sites[kept[n]].refs,
         tus |-> Contributors(ch, order, kept[n])]]

(* One site read back, and its registrations.                                *)
LoadSite(ch, s, mutable) ==
  LET stored == Store(ch, s.key, Head(s.tus), s.refs)
      i == Len(stored.sites)
  IN IF mutable
     THEN [stored EXCEPT !.byTu = [t \in TUs |-> ch.byTu[t] \o [m \in 1..Times(t, s.tus) |-> i]]]
     ELSE stored
LoadSites(file, mutable) ==
  LET after[n \in 0..Len(file)] ==
        IF n = 0 THEN EmptyChannels ELSE LoadSite(after[n-1], file[n], mutable)
  IN after[Len(file)]
=============================================================================
