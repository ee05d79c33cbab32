-------------------------- MODULE ControlFlowIndex --------------------------
(***************************************************************************)
(* The index of call-site contexts (src/callgraph/ControlFlowIndex.cpp) as *)
(* a value, with one operator per member function, and its section of the  *)
(* snapshot file (src/callgraph/Snapshot.cpp).  Every mutator holds the    *)
(* index's mutex for its whole body.                                       *)
(*                                                                         *)
(* Strings are opaque, but interning is not: a stored context refers to    *)
(* its strings by position in the interner's table, to its try scopes,     *)
(* guards and live locals by position in three tables of sets, and the     *)
(* locals of the third are themselves string ids.  Position 1 of each      *)
(* table of sets holds the empty set.                                      *)
(***************************************************************************)
EXTENDS Naturals, SequencesExt, Listing

CONSTANTS
  TUs,        \* translation unit paths
  display,    \* display[f]: the qualified name of function usr f
  siteFile    \* siteFile[s]: the path a call site's location starts with

Fns   == DOMAIN display
Names == {display[f] : f \in Fns}
Sites == DOMAIN siteFile

NoTU     == "no TU"     \* a context without provenance
NoString == 0
EmptySet == 1

EmptyIndex ==
  [strings |-> <<>>, contexts |-> <<>>,
   scopeSets |-> << <<>> >>, guardSets |-> << <<>> >>, raiiSets |-> << <<>> >>,
   byCallee |-> <<>>, byCaller |-> <<>>, byCalleeDisplay |-> <<>>, byCallerDisplay |-> <<>>,
   bySite |-> <<>>, byTu |-> <<>>, noProvenance |-> <<>>, live |-> 0]

LiveContexts(ix) == {i \in DOMAIN ix.contexts : ix.contexts[i].live}
LiveStored(ix)   == Listed(ix.contexts, LiveContexts(ix))

Intern(table, x) == IF Contains(table, x) THEN table ELSE Append(table, x)
IdOf(table, x) == CHOOSE i \in DOMAIN table : table[i] = x
InternAll(table, list) ==
  LET after[n \in 0..Len(list)] == IF n = 0 THEN table ELSE Intern(after[n-1], list[n])
  IN after[Len(list)]

At(map, k) == IF k \in DOMAIN map THEN map[k] ELSE <<>>
Push(map, k, i) ==
  [x \in DOMAIN map \cup {k} |-> IF x = k THEN Append(At(map, k), i) ELSE map[x]]
Scrub(s, dead) == Only(s, LAMBDA i : i \notin dead)
ScrubMap(map, dead) == [k \in DOMAIN map |-> Scrub(map[k], dead)]
-----------------------------------------------------------------------------
(* insertStored.  The display twins carry only what the usr maps do not.  A  *)
(* read-only load does not track which TU a context came from.               *)
InsertStored(ix, se, trackTu) ==
  LET i == Len(ix.contexts) + 1
  IN [ix EXCEPT
       !.contexts = Append(@, se),
       !.byCallee = Push(@, se.callee, i), !.byCaller = Push(@, se.caller, i),
       !.byCalleeDisplay = IF se.calleeDisplay # se.callee THEN Push(@, se.calleeDisplay, i) ELSE @,
       !.byCallerDisplay = IF se.callerDisplay # se.caller THEN Push(@, se.callerDisplay, i) ELSE @,
       !.bySite = Push(@, se.site, i),
       !.byTu = IF trackTu /\ se.tuPath # NoString THEN Push(@, se.tuPath, i) ELSE @,
       !.noProvenance = IF trackTu /\ se.tuPath = NoString THEN Append(@, i) ELSE @,
       !.live = @ + 1]

(* Stored contexts inserted one after the other.                             *)
InsertAll(ix, list, trackTu) ==
  LET after[n \in 0..Len(list)] ==
        IF n = 0 THEN ix ELSE InsertStored(after[n-1], list[n], trackTu)
  IN after[Len(list)]

(* addCallSiteContext.  Both displays are interned first, then the usrs, the *)
(* site, the TU and the locals; the locals' set is looked up by their ids.   *)
AddContext(ix, c, tu) ==
  LET strings == InternAll(ix.strings,
                   <<display[c.callee], display[c.caller], c.callee, c.caller, c.site>>
                     \o (IF tu = NoTU THEN <<>> ELSE <<tu>>) \o c.locals)
      Id(s)   == IdOf(strings, s)
      locals  == [n \in DOMAIN c.locals |-> Id(c.locals[n])]
      scopes  == Intern(ix.scopeSets, c.scopes)
      guards  == Intern(ix.guardSets, c.guards)
      raii    == Intern(ix.raiiSets, locals)
  IN InsertStored(
       [ix EXCEPT !.strings = strings, !.scopeSets = scopes, !.guardSets = guards, !.raiiSets = raii],
       [caller |-> Id(c.caller), callee |-> Id(c.callee),
        callerDisplay |-> Id(display[c.caller]), calleeDisplay |-> Id(display[c.callee]),
        site |-> Id(c.site), tuPath |-> IF tu = NoTU THEN NoString ELSE Id(tu),
        scopeSet |-> IdOf(scopes, c.scopes), guardSet |-> IdOf(guards, c.guards),
        raiiSet |-> IdOf(raii, locals), attr |-> c.attr, live |-> TRUE], TRUE)
-----------------------------------------------------------------------------
(* materialize: the context as it was added, with its TU.                    *)
Materialize(ix, i) ==
  LET se == ix.contexts[i]
      raii == ix.raiiSets[se.raiiSet]
  IN [caller |-> ix.strings[se.caller], callee |-> ix.strings[se.callee],
      callerName |-> ix.strings[se.callerDisplay], calleeName |-> ix.strings[se.calleeDisplay],
      site |-> ix.strings[se.site],
      tu |-> IF se.tuPath = NoString THEN NoTU ELSE ix.strings[se.tuPath],
      scopes |-> ix.scopeSets[se.scopeSet], guards |-> ix.guardSets[se.guardSet],
      locals |-> [n \in DOMAIN raii |-> ix.strings[raii[n]]], attr |-> se.attr]

MaterializeLive(ix, idxs) ==
  LET live == Only(idxs, LAMBDA i : i \in LiveContexts(ix))
  IN [n \in DOMAIN live |-> Materialize(ix, live[n])]

(* indicesFor: a name that is a usr key, even one that lists nothing any     *)
(* more, is not looked up as a display name.                                 *)
IndicesFor(ix, usrMap, displayMap, name) ==
  IF ~Contains(ix.strings, name) THEN <<>>
  ELSE LET id == IdOf(ix.strings, name)
       IN IF id \in DOMAIN usrMap THEN usrMap[id] ELSE At(displayMap, id)

CalleeIndices(ix, name) == IndicesFor(ix, ix.byCallee, ix.byCalleeDisplay, name)
CallerIndices(ix, name) == IndicesFor(ix, ix.byCaller, ix.byCallerDisplay, name)
SiteIndices(ix, site) ==
  IF Contains(ix.strings, site) THEN At(ix.bySite, IdOf(ix.strings, site)) ELSE <<>>

ContextsForCallee(ix, name) == MaterializeLive(ix, CalleeIndices(ix, name))
ContextsForCaller(ix, name) == MaterializeLive(ix, CallerIndices(ix, name))
ContextsAtSite(ix, site)    == MaterializeLive(ix, SiteIndices(ix, site))

ProtectedCallsTo(ix, name) ==
  MaterializeLive(ix, Only(CalleeIndices(ix, name),
                           LAMBDA i : ix.contexts[i].scopeSet # EmptySet))
UnprotectedCallsTo(ix, name) ==
  MaterializeLive(ix, Only(CalleeIndices(ix, name),
                           LAMBDA i : ix.contexts[i].scopeSet = EmptySet))

(* contextAtSite, without and with a caller: the first live match, if any.   *)
FirstOf(s) == IF s = <<>> THEN <<>> ELSE <<Head(s)>>
ContextAtSite(ix, site) == FirstOf(ContextsAtSite(ix, site))
ContextAtSiteIn(ix, site, caller) ==
  IF ~Contains(ix.strings, caller) THEN <<>>
  ELSE LET id == IdOf(ix.strings, caller)
       IN FirstOf(MaterializeLive(ix, Only(SiteIndices(ix, site),
            LAMBDA i : id \in {ix.contexts[i].caller, ix.contexts[i].callerDisplay})))

(* forEachContext, allContexts                                               *)
AllContexts(ix) == MaterializeLive(ix, [i \in DOMAIN ix.contexts |-> i])
-----------------------------------------------------------------------------
(* absorb.  String ids and set positions of the shard are translated to      *)
(* those of this index; a set of locals is in id space, so its ids are       *)
(* translated before it is looked up.                                        *)
(* Faulty variant: the shard's ids are looked up as they are.                *)
KeepLocalIds(strings, shard, locals) == locals
RemapLocals(strings, shard, locals) ==
  [n \in DOMAIN locals |-> IdOf(strings, shard.strings[locals[n]])]

Absorb(ix, shard) ==
  LET strings == InternAll(ix.strings, shard.strings)
      scopes  == InternAll(ix.scopeSets, shard.scopeSets)
      guards  == InternAll(ix.guardSets, shard.guardSets)
      Locals(s) == RemapLocals(strings, shard, s)
      raii    == InternAll(ix.raiiSets, [n \in DOMAIN shard.raiiSets |-> Locals(shard.raiiSets[n])])
      Remap(id) == IF id = NoString THEN NoString ELSE IdOf(strings, shard.strings[id])
      live    == LiveStored(shard)
  IN InsertAll(
       [ix EXCEPT !.strings = strings, !.scopeSets = scopes, !.guardSets = guards, !.raiiSets = raii],
       [n \in DOMAIN live |->
          [live[n] EXCEPT !.caller = Remap(@), !.callee = Remap(@),
                          !.callerDisplay = Remap(@), !.calleeDisplay = Remap(@),
                          !.site = Remap(@), !.tuPath = Remap(@),
                          !.scopeSet = IdOf(scopes, shard.scopeSets[@]),
                          !.guardSet = IdOf(guards, shard.guardSets[@]),
                          !.raiiSet = IdOf(raii, Locals(shard.raiiSets[@]))]],
       TRUE)

(* removeTUs.  A context goes with its TU, or, without provenance, when its  *)
(* site lies in the file of a removed TU.  The lists of the dead are         *)
(* scrubbed; only bySite_ forgets a key whose list is empty.                 *)
Doomed(ix, S) ==
  {i \in LiveContexts(ix) :
     LET se == ix.contexts[i]
     IN \/ \E t \in S : Contains(ix.strings, t) /\ Contains(At(ix.byTu, IdOf(ix.strings, t)), i)
        \/ Contains(ix.noProvenance, i) /\ siteFile[ix.strings[se.site]] \in S}

RemoveTUs(ix, S) ==
  LET dead   == Doomed(ix, S)
      buried == [i \in DOMAIN ix.contexts |->
                   [ix.contexts[i] EXCEPT !.live = @ /\ i \notin dead]]
      sites  == {k \in DOMAIN ix.bySite : Scrub(ix.bySite[k], dead) # <<>>}
      tuIds  == {id \in DOMAIN ix.byTu : ix.strings[id] \notin S}
  IN IF dead = {} THEN ix
     ELSE [ix EXCEPT
            !.contexts = buried,
            !.byCallee = ScrubMap(@, dead), !.byCaller = ScrubMap(@, dead),
            !.byCalleeDisplay = ScrubMap(@, dead), !.byCallerDisplay = ScrubMap(@, dead),
            !.bySite = [k \in sites |-> Scrub(ix.bySite[k], dead)],
            !.byTu = [id \in tuIds |-> ix.byTu[id]],
            !.noProvenance = Scrub(@, dead),
            !.live = @ - Cardinality(dead)]

(* compact: the live contexts are inserted anew; strings and sets stay.      *)
Emptied(ix) ==
  [EmptyIndex EXCEPT !.strings = ix.strings, !.scopeSets = ix.scopeSets,
                     !.guardSets = ix.guardSets, !.raiiSets = ix.raiiSets]
(* Faulty variant: the display twins of the callees are not rebuilt.         *)
CompactUsrOnly(ix) ==
  [InsertAll(Emptied(ix), LiveStored(ix), TRUE) EXCEPT !.byCalleeDisplay = <<>>]
Compact(ix) == InsertAll(Emptied(ix), LiveStored(ix), TRUE)
-----------------------------------------------------------------------------
(* The control-flow section of the snapshot: the string table, the three     *)
(* tables of sets in their order, the live contexts.  A reader installs the  *)
(* tables by position and inserts the contexts as they are; it tracks TUs    *)
(* only when the index is to be changed.  It rejects a file whose tables do  *)
(* not start with the empty set or whose positions lie outside them.         *)
(* Faulty variant: tombstones are written like the rest.                     *)
SaveTombstones(ix) ==
  [strings |-> ix.strings, scopeSets |-> ix.scopeSets, guardSets |-> ix.guardSets,
   raiiSets |-> ix.raiiSets,
   contexts |-> [i \in DOMAIN ix.contexts |-> [ix.contexts[i] EXCEPT !.live = TRUE]]]
SaveContexts(ix) ==
  [strings |-> ix.strings, scopeSets |-> ix.scopeSets, guardSets |-> ix.guardSets,
   raiiSets |-> ix.raiiSets, contexts |-> LiveStored(ix)]

Sound(file) ==
  /\ \A t \in {file.scopeSets, file.guardSets, file.raiiSets} : t # <<>> /\ t[EmptySet] = <<>>
  /\ \A n \in DOMAIN file.raiiSets : ToSet(file.raiiSets[n]) \subseteq DOMAIN file.strings
  /\ \A n \in DOMAIN file.contexts :
       LET se == file.contexts[n]
       IN /\ {se.caller, se.callee, se.callerDisplay, se.calleeDisplay, se.site}
               \cup ({se.tuPath} \ {NoString}) \subseteq DOMAIN file.strings
          /\ se.scopeSet \in DOMAIN file.scopeSets
          /\ se.guardSet \in DOMAIN file.guardSets
          /\ se.raiiSet \in DOMAIN file.raiiSets

LoadContexts(file, mutable) == InsertAll(Emptied(file), file.contexts, mutable)
=============================================================================
