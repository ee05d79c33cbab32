------------------------ MODULE MegascopeIndexProofs ------------------------
(***************************************************************************)
(* What one megascope process at a time leaves in the index file, for any  *)
(* set of TUs and headers, any include relation and any number of edits,   *)
(* runs, kills and failures.  (Two processes that save at the same time    *)
(* share the name of the temp file, and NeverTorn does not hold for them.) *)
(*                                                                         *)
(* The argument is about one entry of an index at a time: what was parsed  *)
(* of a TU, the stamp it is recorded with and the stamps of the files its  *)
(* parse opened.  An entry is sound when it can only look up to date if it *)
(* is.  A parse makes a sound entry, an edit or a deletion keeps every     *)
(* entry sound wherever it is (in the file, in the temp file, in memory),  *)
(* and saving, loading and refreshing hand entries on.                     *)
(***************************************************************************)
EXTENDS MegascopeIndex, FiniteSetTheorems, WellFoundedInduction, TLAPS

\* Only one process uses the index file.
OneProcess == \A p, q \in Procs : p = q
-----------------------------------------------------------------------------
(* The invariant.  `now` is the disk, clk the clock and e the edits left.    *)

\* Files and their times.
DiskInv(now, clk) ==
  /\ clk \in Nat /\ clk >= PerSecond
  /\ now \in [TUs \cup Headers -> Nat]
  /\ \A f \in TUs \cup Headers : now[f] # Missing => PerSecond <= now[f] /\ now[f] <= clk

\* A function of the TUs.
OnTUs(f) == DOMAIN f = TUs /\ f = [t \in TUs |-> f[t]]

\* At most one parse of a TU is in an index.
Single(g) == g = <<>> \/ g = <<g[1]>>

\* A parse of t that came to its end under cfg.
IsParse(c, t, cfg) ==
  /\ c = [src |-> c.src, hdr |-> c.hdr, cfg |-> cfg, complete |-> TRUE]
  /\ c.hdr \in [Opens[t] -> Nat]

\* Opened files with the second of their last change.
IsDeps(d) ==
  /\ DOMAIN d \subseteq Headers /\ d = [h \in DOMAIN d |-> d[h]]
  /\ \A h \in DOMAIN d : d[h] \in Nat \ {0}

\* The opened files have the second they were noted with.
Current(d, now) == \A h \in DOMAIN d : d[h] = Sec(now[h])

\* What c read of header h is noted in d, with a stamp that is not later than
\* what it read; it read no version that is still to come.
Noted(c, d, h, now, clk) ==
  c.hdr[h] # Missing =>
    /\ h \in DOMAIN d /\ d[h] <= Sec(c.hdr[h])
    /\ c.hdr[h] <= clk
    /\ now[h] # Missing => c.hdr[h] <= now[h]

\* The entry of t, recorded with stamp s: while t still has this stamp, the
\* entry is a parse of t as it is.
Sound(g, d, s, t, cfg, now, clk) ==
  s # Missing =>
    /\ g = <<>> => now[t] # s
    /\ g # <<>> => /\ IsParse(g[1], t, cfg)
                   /\ now[t] = s => g[1].src = s
                   /\ \A h \in Opens[t] : Noted(g[1], d, h, now, clk)

\* Stamps are taken from files that were there to be stamped.
Stamped(stamp, files, clk) ==
  files \subseteq TUs /\ stamp \in [files -> Nat] /\ \A t \in files : stamp[t] <= clk

\* An index on file.
FileInv(f, now, clk) ==
  /\ Whole(f)
  /\ Stamped(f.stamp, f.files, clk)
  /\ OnTUs(f.graph)
  /\ \A t \in TUs : Single(f.graph[t])
  /\ \A t \in TUs \ f.files : f.graph[t] = <<>>
  /\ f.tuDeps \in [f.files -> SUBSET Headers]
  /\ \A t \in f.files : \A h \in f.tuDeps[t] : f.deps[h] \in Nat \ {0}
  /\ \A t \in f.files \ f.skipped :
       Sound(f.graph[t], DependenciesOf(f)[t], f.stamp[t], t, f.cfg, now, clk)

\* The fields of a run that has decided what to bake.
Fields == {"pc", "verb", "cfg", "files", "stamp", "at", "graph", "deps", "todo", "toBake",
           "fresh", "freshDeps", "changed", "skipped", "ino", "others"}

\* A run from its decision on.
IsRun(r, clk, e) ==
  /\ DOMAIN r = Fields /\ r = [x \in Fields |-> r[x]]
  /\ r.verb \in {"index", "serve"}
  /\ Stamped(r.stamp, r.files, clk)
  /\ r.at \in Nat /\ e <= r.at
  /\ r.todo \subseteq r.toBake /\ r.toBake \subseteq r.files
  /\ OnTUs(r.graph) /\ OnTUs(r.deps) /\ OnTUs(r.fresh) /\ OnTUs(r.freshDeps)
  /\ \A t \in TUs : IsDeps(r.deps[t]) /\ IsDeps(r.freshDeps[t])
  /\ \A t \in TUs : Single(r.graph[t]) /\ Single(r.fresh[t])

\* While it bakes: what is to be baked is out of the index it started from.
BakingInv(r, now, clk) ==
  /\ r.changed = {} => r.verb = "serve"
  /\ \A t \in TUs \ r.files : r.graph[t] = <<>>
  /\ \A t \in r.toBake : r.graph[t] = <<>> /\ r.deps[t] = <<>>
  /\ \A t \in (TUs \ r.toBake) \cup r.todo : r.fresh[t] = <<>> /\ r.freshDeps[t] = <<>>
  /\ \A t \in r.files \ (r.toBake \cup r.skipped) :
       Sound(r.graph[t], r.deps[t], r.stamp[t], t, r.cfg, now, clk)
  /\ \A t \in r.toBake \ (r.todo \cup r.skipped) :
       Sound(r.fresh[t], r.freshDeps[t], r.stamp[t], t, r.cfg, now, clk)

\* If nothing was edited since it stamped its files.
BakingQuiet(r, now, e) ==
  r.at = e =>
    /\ \A t \in r.files : r.stamp[t] = now[t] /\ Current(r.deps[t], now)
    /\ \A t \in TUs : Current(r.freshDeps[t], now)
    /\ \A t \in r.toBake : now[t] = Missing => r.fresh[t] = <<>>

\* The bake is merged.
MergedInv(r, now, clk) ==
  /\ \A t \in TUs \ r.files : r.graph[t] = <<>>
  /\ \A t \in r.files \ r.skipped : Sound(r.graph[t], r.deps[t], r.stamp[t], t, r.cfg, now, clk)

\* No edit since the run stamped its files: what it trusts is what is there.
MergedQuiet(r, now, e) ==
  r.at = e =>
    /\ \A t \in r.files : r.stamp[t] = now[t] /\ Current(r.deps[t], now)
    /\ \A t \in r.toBake : now[t] = Missing => r.graph[t] = <<>>

\* What RunEndsFresh says of one run.
EndsFresh(r) ==
  r.at = left.edits =>
    \A t \in TUs :
      \/ t \in r.skipped \/ MissedHeader(r.graph[t])
      \/ disk[t] = Missing /\ t \notin r.toBake
      \/ SameContent(r.graph[t], IF t \in r.files \/ r.graph[t] # <<>>
                                 THEN Contribution(t, r.cfg) ELSE <<>>)

\* What SettlesDown says of one run.
Settled(r) ==
  r.at = left.edits =>
    Whole(Load) /\ FilesOf(Load) = r.files /\ DirtyTUs(Load, r.files, disk) = {}

\* A run that has loaded the index and not decided yet.
LaunchedInv(r) ==
  /\ r = [pc |-> "launched", verb |-> r.verb, cfg |-> r.cfg, files |-> r.files, snap |-> Load]
  /\ r.verb \in {"index", "serve"} /\ r.files \subseteq TUs /\ r.files # {}

\* The two stages of a run between its decision and its save.
Baked(r)  == IsRun(r, clock, left.edits) /\ BakingInv(r, disk, clock) /\ BakingQuiet(r, disk, left.edits)
Merged(r) == IsRun(r, clock, left.edits) /\ MergedInv(r, disk, clock) /\ MergedQuiet(r, disk, left.edits)

\* What holds of a run, by where it is.
RunInv(r) ==
  \/ r = Off
  \/ LaunchedInv(r)
  \/ r.pc = "baking" /\ Baked(r)
  \/ r.pc = "saving" /\ Merged(r)
  \/ r.pc = "writing" /\ Merged(r) /\ tmp # 0 /\ r.ino = tmp /\ r.others = {}
  \/ r.pc = "written" /\ Merged(r) /\ tmp # 0 /\ data[tmp] = Saved(r)
  \/ r.pc = "serving" /\ IsRun(r, clock, left.edits) /\ EndsFresh(r)
  \/ r.pc = "failed"
  \/ r.pc = "done" /\ r.at \in Nat /\ left.edits <= r.at /\ EndsFresh(r) /\ Settled(r)

\* The types of the state.
TypeInv ==
  /\ DiskInv(disk, clock)
  /\ left \in [edits : Nat, runs : Nat, kills : Nat, failures : Nat, reindex : Nat]
  /\ data = [i \in Inodes |-> data[i]]
  /\ idx \in Inodes \cup {0} /\ tmp \in Inodes \cup {0}
  /\ run = [p \in Procs |-> run[p]]

\* The index file is sound, and so is every run.
Inv ==
  /\ TypeInv
  /\ idx # 0 => idx # tmp /\ FileInv(data[idx], disk, clock)
  /\ \A p \in Procs : RunInv(run[p])
-----------------------------------------------------------------------------
(* Stamps and sequences.                                                     *)

\* A set of natural numbers has a least one, which MinOf finds.
LEMMA MinOfLeast ==
  ASSUME NEW S, S \subseteq Nat, S # {}
  PROVE  MinOf(S) \in S /\ \A w \in S : MinOf(S) <= w
<1> DEFINE R == {ss \in Nat \X Nat : ss[1] < ss[2]}
<1>1. R = OpToRel(<, Nat)
  BY Zenon DEF OpToRel
<1>2. IsWellFoundedOn(R, Nat)
  BY <1>1, NatLessThanWellFounded, Zenon
<1>3. PICK x \in S : \A y \in S : ~(<<y, x>> \in R)
  <2> HIDE DEF R
  <2> QED BY <1>2, WFMin, Zenon
<1>4. ASSUME NEW y \in S
      PROVE  ~(y < x)
  <2> DEFINE z == <<y, x>>
  <2>1. z \in Nat \X Nat /\ z[1] = y /\ z[2] = x
    BY SMT
  <2>2. z \notin R
    BY <1>3, Zenon
  <2> HIDE DEF z
  <2> QED BY <2>1, <2>2, SMT
<1>5. \A y \in S : x <= y
  BY <1>4, SMT
<1> QED BY <1>5, Zenon DEF MinOf

\* Seconds are natural numbers, and later times have no earlier second.
LEMMA SecMonotone ==
  ASSUME NEW v \in Nat, NEW w \in Nat, v <= w
  PROVE  Sec(v) \in Nat /\ Sec(v) <= Sec(w)
BY SecondAssumption, SMT DEF Sec

\* The second of a file that exists is not that of a missing one.
LEMMA SecOfTime ==
  /\ Sec(Missing) = 0
  /\ \A v \in Nat : v >= PerSecond => Sec(v) \in Nat \ {0}
BY SecondAssumption, SMT DEF Sec, Missing

\* One parse is single.
LEMMA OneIsSingle ==
  ASSUME NEW c
  PROVE  Single(<<c>>) /\ <<c>>[1] = c /\ <<c>> # <<>> /\ Single(<<>>)
BY DEF Single

\* Joining an entry with nothing.
LEMMA JoinSingles ==
  ASSUME NEW g, NEW k, Single(g), Single(k), g = <<>> \/ k = <<>>
  PROVE  g \o k = IF g = <<>> THEN k ELSE g
<1>1. ASSUME NEW c
      PROVE  <<>> \o <<c>> = <<c>> /\ <<c>> \o <<>> = <<c>>
  <2>1. <<c>> \in Seq({c}) /\ <<>> \in Seq({c})
    OBVIOUS
  <2> QED BY <2>1
<1>2. <<>> \o <<>> = <<>>
  OBVIOUS
<1>3. CASE g = <<>> /\ k = <<>>
  BY <1>2, <1>3
<1>4. CASE g = <<>> /\ k = <<k[1]>>
  BY <1>1, <1>4
<1>5. CASE g = <<g[1]>> /\ k = <<>>
  <2>1. <<g[1]>> # <<>>
    OBVIOUS
  <2> QED BY <1>1, <1>5, <2>1, Zenon
<1> QED BY <1>3, <1>4, <1>5 DEF Single

-----------------------------------------------------------------------------
(* Entries.                                                                  *)

\* The disk has moved on: every file is as it was, gone, or newer than
\* anything before.
Later(now, clk, then) ==
  \A f \in TUs \cup Headers : then[f] = now[f] \/ then[f] = Missing \/ then[f] > clk

\* An entry stays sound whatever is edited or deleted.
LEMMA SoundStable ==
  ASSUME NEW now, NEW clk, NEW then, NEW clk2, DiskInv(now, clk), Later(now, clk, then),
         clk2 \in Nat, clk <= clk2, then \in [TUs \cup Headers -> Nat],
         NEW g, NEW d, NEW s \in Nat, s <= clk, NEW t \in TUs, NEW cfg,
         Sound(g, d, s, t, cfg, now, clk)
  PROVE  Sound(g, d, s, t, cfg, then, clk2)
<1> SUFFICES ASSUME s # Missing PROVE Sound(g, d, s, t, cfg, then, clk2)
  BY DEF Sound
<1>1. then[t] = s => now[t] = s
  BY DEF Later, DiskInv, Missing
<1>2. CASE g = <<>>
  BY <1>1, <1>2 DEF Sound
<1>3. CASE g # <<>>
  <2> DEFINE c == g[1]
  <2>1. IsParse(c, t, cfg) /\ (now[t] = s => c.src = s)
    BY <1>3 DEF Sound
  <2>2. ASSUME NEW h \in Opens[t]
        PROVE  Noted(c, d, h, then, clk2)
    <3>1. h \in Headers
      BY OpensAssumption
    <3>2. Noted(c, d, h, now, clk) /\ c.hdr[h] \in Nat
      BY <1>3, <2>1 DEF Sound, IsParse
    <3>3. c.hdr[h] # Missing =>
            /\ c.hdr[h] <= clk2
            /\ then[h] # Missing => c.hdr[h] <= then[h]
      <4> SUFFICES ASSUME c.hdr[h] # Missing
                   PROVE  /\ c.hdr[h] <= clk2
                          /\ then[h] # Missing => c.hdr[h] <= then[h]
        OBVIOUS
      <4> DEFINE v == c.hdr[h]
      <4>1. v \in Nat /\ v <= clk /\ (now[h] # Missing => v <= now[h])
        BY <3>2 DEF Noted
      <4> HIDE DEF v
      <4> SUFFICES v <= clk2 /\ (then[h] # Missing => v <= then[h])
        BY DEF v
      <4> QED BY <3>1, <4>1 DEF Later, DiskInv, Missing
    <3> QED BY <3>2, <3>3 DEF Noted
  <2> QED BY <1>1, <1>3, <2>1, <2>2 DEF Sound
<1> QED BY <1>2, <1>3

\* What a parse of t leaves now is sound whatever stamp it is recorded with.
LEMMA ParseSound ==
  ASSUME DiskInv(disk, clock), NEW t \in TUs, NEW cfg, NEW s
  PROVE  /\ Single(Contribution(t, cfg))
         /\ IsDeps(Opened(t)) /\ Current(Opened(t), disk)
         /\ Sound(Contribution(t, cfg), Opened(t), s, t, cfg, disk, clock)
<1>0. Opens[t] \subseteq Headers
  BY OpensAssumption
<1>1. CASE disk[t] = Missing
  <2>1. Contribution(t, cfg) = <<>> /\ Opened(t) = <<>>
    BY <1>1 DEF Contribution, Opened
  <2>2. DOMAIN <<>> = {} /\ <<>> = [h \in {} |-> <<>>[h]]
    OBVIOUS
  <2>3. IsDeps(<<>>) /\ Current(<<>>, disk) /\ Single(<<>>)
    BY <2>2 DEF IsDeps, Current, Single
  <2> QED BY <1>1, <2>1, <2>3 DEF Sound
<1>2. CASE disk[t] # Missing
  <2> DEFINE c == Content(t, cfg)
             d == [h \in {h \in Opens[t] : disk[h] # Missing} |-> Sec(disk[h])]
  <2>1. Contribution(t, cfg) = <<c>> /\ Opened(t) = d
    BY <1>2, Zenon DEF Contribution, Opened
  <2>2. /\ c.src = disk[t] /\ c.hdr = [h \in Opens[t] |-> disk[h]]
        /\ c = [src |-> c.src, hdr |-> c.hdr, cfg |-> cfg, complete |-> TRUE]
    BY DEF Content
  <2>3. \A h \in Opens[t] : disk[h] \in Nat /\ (disk[h] # Missing => disk[h] >= PerSecond)
    BY <1>0 DEF DiskInv
  <2>4. IsParse(c, t, cfg)
    BY <2>2, <2>3, Zenon DEF IsParse
  <2>5. /\ DOMAIN d = {h \in Opens[t] : disk[h] # Missing}
        /\ \A h \in DOMAIN d : d[h] = Sec(disk[h])
        /\ d = [h \in DOMAIN d |-> d[h]]
    OBVIOUS
  <2> HIDE DEF c, d
  <2>6. IsDeps(d) /\ Current(d, disk)
    BY <1>0, <2>3, <2>5, SecOfTime DEF IsDeps, Current
  <2>7. ASSUME NEW h \in Opens[t]
        PROVE  Noted(c, d, h, disk, clock)
    <3>1. c.hdr[h] = disk[h] /\ disk[h] \in Nat
      BY <2>2, <2>3
    <3>2. Sec(disk[h]) <= Sec(disk[h])
      BY <2>3, SecMonotone
    <3>3. disk[h] # Missing => disk[h] <= clock
      BY <1>0 DEF DiskInv
    <3> QED BY <2>5, <3>1, <3>2, <3>3 DEF Noted
  <2>8. Sound(<<c>>, d, s, t, cfg, disk, clock)
    <3>1. <<c>>[1] = c /\ <<c>> # <<>>
      BY OneIsSingle
    <3> QED BY <2>2, <2>4, <2>7, <3>1 DEF Sound
  <2> QED BY <2>1, <2>6, <2>8, OneIsSingle
<1> QED BY <1>1, <1>2

\* Nothing is current, and is no wrong dependency.
LEMMA NoDepsCurrent ==
  ASSUME NEW now
  PROVE  IsDeps(<<>>) /\ Current(<<>>, now)
<1>1. DOMAIN <<>> = {} /\ <<>> = [h \in {} |-> <<>>[h]]
  OBVIOUS
<1> QED BY <1>1 DEF IsDeps, Current

\* Two parses that differ only in header times of the same second.
LEMMA SameSeconds ==
  ASSUME NEW c, NEW k, NEW src, NEW cfg, NEW x, NEW ch, NEW kh,
         c = [src |-> src, hdr |-> ch, cfg |-> cfg, complete |-> x],
         k = [src |-> src, hdr |-> kh, cfg |-> cfg, complete |-> x],
         [h \in DOMAIN ch |-> Sec(ch[h])] = [h \in DOMAIN kh |-> Sec(kh[h])]
  PROVE  ToTheSecond(c) = ToTheSecond(k)
<1> DEFINE cs == [h \in DOMAIN ch |-> Sec(ch[h])]
           ks == [h \in DOMAIN kh |-> Sec(kh[h])]
<1>1. ToTheSecond(c) = [c EXCEPT !.hdr = cs] /\ ToTheSecond(k) = [k EXCEPT !.hdr = ks]
  BY DEF ToTheSecond
<1> HIDE DEF cs, ks
<1>2. ToTheSecond(c) = [src |-> src, hdr |-> cs, cfg |-> cfg, complete |-> x]
  BY <1>1
<1>3. ToTheSecond(k) = [src |-> src, hdr |-> ks, cfg |-> cfg, complete |-> x]
  BY <1>1
<1> QED BY <1>2, <1>3 DEF cs, ks

\* A whole parse, with its Boolean field set.
Seen(src, hdr, cfg) == [src |-> src, hdr |-> hdr, cfg |-> cfg, complete |-> TRUE]

\* The same of parses that came to their end.
LEMMA SeenSameSeconds ==
  ASSUME NEW src, NEW cfg, NEW ch, NEW kh,
         [h \in DOMAIN ch |-> Sec(ch[h])] = [h \in DOMAIN kh |-> Sec(kh[h])]
  PROVE  ToTheSecond(Seen(src, ch, cfg)) = ToTheSecond(Seen(src, kh, cfg))
<1>1. \A x : ToTheSecond([src |-> src, hdr |-> ch, cfg |-> cfg, complete |-> x])
             = ToTheSecond([src |-> src, hdr |-> kh, cfg |-> cfg, complete |-> x])
  BY SameSeconds
<1> QED BY <1>1, Zenon DEF Seen

\* A sound entry that looks up to date is what a cold bake gives, to the
\* second, unless its parse missed a header.
LEMMA CleanEntry ==
  ASSUME DiskInv(disk, clock), NEW t \in TUs, NEW cfg, NEW g, NEW d,
         Single(g), IsDeps(d), Current(d, disk), disk[t] # Missing,
         Sound(g, d, disk[t], t, cfg, disk, clock), ~MissedHeader(g)
  PROVE  SameContent(g, Contribution(t, cfg))
<1> DEFINE c == g[1]
           k == Content(t, cfg)
<1>0. Opens[t] \subseteq Headers
  BY OpensAssumption
<1>1. /\ g = <<c>> /\ g # <<>>
      /\ IsParse(c, t, cfg) /\ c.src = disk[t]
      /\ \A h \in Opens[t] : Noted(c, d, h, disk, clock)
  BY DEF Sound, Single
<1>2. Contribution(t, cfg) = <<k>>
  BY Zenon DEF Contribution
<1>3. DOMAIN c.hdr = Opens[t] /\ \A h \in Opens[t] : c.hdr[h] \in Nat /\ c.hdr[h] # Missing
  BY <1>1 DEF IsParse, MissedHeader
<1>4. ASSUME NEW h \in Opens[t]
      PROVE  Sec(c.hdr[h]) = Sec(disk[h])
  <2> DEFINE v == c.hdr[h]
             w == disk[h]
  <2>1. h \in DOMAIN d /\ d[h] <= Sec(v) /\ (w # Missing => v <= w)
    BY <1>1, <1>3 DEF Noted
  <2>2. d[h] = Sec(w) /\ d[h] \in Nat \ {0}
    BY <2>1 DEF Current, IsDeps
  <2>3. v \in Nat /\ w \in Nat
    BY <1>0, <1>3 DEF DiskInv
  <2> HIDE DEF v, w
  <2>4. w # Missing
    BY <2>2, SecOfTime
  <2>5. Sec(v) \in Nat /\ Sec(v) <= Sec(w)
    BY <2>1, <2>3, <2>4, SecMonotone
  <2>6. Sec(v) = Sec(w)
    BY <2>1, <2>2, <2>5, SMT
  <2> QED BY <2>6 DEF v, w
<1>5. /\ c = [src |-> disk[t], hdr |-> c.hdr, cfg |-> cfg, complete |-> TRUE]
      /\ k = [src |-> disk[t], hdr |-> k.hdr, cfg |-> cfg, complete |-> TRUE]
      /\ k.hdr = [h \in Opens[t] |-> disk[h]]
  BY <1>1 DEF IsParse, Content
<1>6. [h \in DOMAIN c.hdr |-> Sec(c.hdr[h])] = [h \in DOMAIN k.hdr |-> Sec(k.hdr[h])]
  BY <1>3, <1>4, <1>5
<1>7. ToTheSecond(c) = ToTheSecond(k)
  <2> DEFINE ch == c.hdr
             kh == k.hdr
  <2>1. [h \in DOMAIN ch |-> Sec(ch[h])] = [h \in DOMAIN kh |-> Sec(kh[h])]
    BY <1>6
  <2>2. c = Seen(disk[t], ch, cfg) /\ k = Seen(disk[t], kh, cfg)
    BY <1>5 DEF Seen
  <2>3. ToTheSecond(Seen(disk[t], ch, cfg)) = ToTheSecond(Seen(disk[t], kh, cfg))
    <3> HIDE DEF ch, kh
    <3> QED BY <2>1, SeenSameSeconds
  <2> HIDE DEF c, k, ch, kh
  <2> QED BY <2>2, <2>3
<1> HIDE DEF k, c
<1>8. SameContent(<<c>>, <<k>>)
  <2>1. Len(<<c>>) = 1 /\ Len(<<k>>) = 1 /\ DOMAIN <<c>> = 1 .. 1 /\ <<c>>[1] = c /\ <<k>>[1] = k
    OBVIOUS
  <2>2. \A i \in DOMAIN <<c>> : i = 1
    BY <2>1
  <2> QED BY <1>7, <2>1, <2>2 DEF SameContent
<1> QED BY <1>1, <1>2, <1>8, Zenon

-----------------------------------------------------------------------------
(* Saving.                                                                   *)

\* What save() writes, field by field.
LEMMA SavedFields ==
  ASSUME NEW r
  PROVE  /\ Saved(r).kind = "whole" /\ Saved(r).files = r.files /\ Saved(r).stamp = r.stamp
         /\ Saved(r).deps = DepStamps(r.files, r.deps)
         /\ Saved(r).tuDeps = [t \in r.files |-> DOMAIN r.deps[t]]
         /\ Saved(r).cfg = r.cfg /\ Saved(r).graph = r.graph
         /\ Saved(r).skipped = r.skipped \cap r.files
BY DEF Saved, WholeFile

\* The one stamp of a header that is kept is one that a TU noted, and no TU
\* noted an older one.
LEMMA DepStampLeast ==
  ASSUME NEW clk, NEW e, NEW r, IsRun(r, clk, e), NEW t \in r.files, NEW h \in DOMAIN r.deps[t]
  PROVE  LET w == DepStamps(r.files, r.deps)[h]
         IN /\ w \in Nat \ {0} /\ w <= r.deps[t][h]
            /\ \E u \in r.files : h \in DOMAIN r.deps[u] /\ w = r.deps[u][h]
<1> DEFINE S == {r.deps[u][h] : u \in Users(r.files, r.deps, h)}
<1>1. r.files \subseteq TUs /\ \A u \in r.files : IsDeps(r.deps[u])
  BY DEF IsRun, Stamped
<1>2. h \in Headers /\ t \in Users(r.files, r.deps, h)
  BY <1>1 DEF IsDeps, Users
<1>3. r.deps[t][h] \in S /\ S \subseteq Nat \ {0}
  <2>1. \A u \in Users(r.files, r.deps, h) : r.deps[u][h] \in Nat \ {0}
    BY <1>1 DEF IsDeps, Users
  <2> QED BY <1>2, <2>1, Zenon
<1>4. DepStamps(r.files, r.deps)[h] = MinOf(S)
  <2>1. h \in Recorded(r.files, r.deps)
    BY <1>2 DEF Recorded
  <2> QED BY <2>1 DEF DepStamps
<1>5. MinOf(S) \in S /\ \A w \in S : MinOf(S) <= w
  <2> HIDE DEF S
  <2>1. S \subseteq Nat /\ S # {}
    BY <1>3
  <2> QED BY <2>1, MinOfLeast
<1>6. \E u \in r.files : h \in DOMAIN r.deps[u] /\ MinOf(S) = r.deps[u][h]
  BY <1>5 DEF Users
<1> HIDE DEF S
<1> QED BY <1>3, <1>4, <1>5, <1>6

\* A merged index is sound when it is saved.
LEMMA SavedSound ==
  ASSUME NEW now, NEW clk, NEW e, NEW r, IsRun(r, clk, e), MergedInv(r, now, clk)
  PROVE  FileInv(Saved(r), now, clk)
<1> DEFINE f == Saved(r)
<1>1. /\ f.kind = "whole" /\ f.files = r.files /\ f.stamp = r.stamp
      /\ f.deps = DepStamps(r.files, r.deps)
      /\ f.tuDeps = [t \in r.files |-> DOMAIN r.deps[t]]
      /\ f.cfg = r.cfg /\ f.graph = r.graph /\ f.skipped = r.skipped \cap r.files
  BY SavedFields
<1> HIDE DEF f
<1>2. r.files \subseteq TUs /\ \A t \in r.files : IsDeps(r.deps[t])
  BY DEF IsRun, Stamped
<1>3. Whole(f) /\ Stamped(f.stamp, f.files, clk) /\ OnTUs(f.graph)
      /\ \A t \in TUs : Single(f.graph[t])
  BY <1>1 DEF IsRun, Whole
<1>4. \A t \in TUs \ f.files : f.graph[t] = <<>>
  BY <1>1 DEF MergedInv
<1>5. f.tuDeps \in [f.files -> SUBSET Headers]
  <2>1. \A t \in r.files : DOMAIN r.deps[t] \in SUBSET Headers
    BY <1>2 DEF IsDeps
  <2> QED BY <1>1, <2>1, Zenon
<1>6. \A t \in f.files : \A h \in f.tuDeps[t] : f.deps[h] \in Nat \ {0} /\ f.deps[h] <= r.deps[t][h]
  BY <1>1, DepStampLeast
<1>7. ASSUME NEW t \in f.files \ f.skipped
      PROVE  Sound(f.graph[t], DependenciesOf(f)[t], f.stamp[t], t, f.cfg, now, clk)
  <2> DEFINE d == DependenciesOf(f)[t]
             k == r.deps[t]
             g == r.graph[t]
  <2>1. t \in r.files /\ t \in TUs /\ Sound(g, k, r.stamp[t], t, r.cfg, now, clk)
    BY <1>1, <1>2 DEF MergedInv
  <2>2. DOMAIN d = DOMAIN k /\ \A h \in DOMAIN k : d[h] = f.deps[h]
    BY <1>1, <2>1 DEF DependenciesOf
  <2>3. \A h \in DOMAIN k : d[h] \in Nat /\ d[h] <= k[h] /\ k[h] \in Nat
    BY <1>1, <1>2, <1>6, <2>1, <2>2 DEF IsDeps
  <2>4. ASSUME IsParse(g[1], t, r.cfg), NEW h \in Opens[t], Noted(g[1], k, h, now, clk)
        PROVE  Noted(g[1], d, h, now, clk)
    <3>1. g[1].hdr[h] \in Nat
      BY <2>4 DEF IsParse
    <3>2. Sec(g[1].hdr[h]) \in Nat
      BY <3>1, SecMonotone
    <3> HIDE DEF g, d, k
    <3> QED BY <2>2, <2>3, <2>4, <3>2 DEF Noted
  <2> HIDE DEF d, k, g
  <2>5. Sound(g, d, r.stamp[t], t, r.cfg, now, clk)
    BY <2>1, <2>4 DEF Sound
  <2> QED BY <1>1, <2>5 DEF g, d
<1> QED BY <1>3, <1>4, <1>5, <1>6, <1>7 DEF FileInv, f

\* With nothing edited, an index that is saved has no dirty TU.
LEMMA SavedClean ==
  ASSUME NEW now, NEW clk, NEW e, NEW r, IsRun(r, clk, e), MergedQuiet(r, now, e), r.at = e
  PROVE  DirtyTUs(Saved(r), r.files, now) = {}
<1> DEFINE f == Saved(r)
<1>1. /\ f.kind = "whole" /\ f.files = r.files /\ f.stamp = r.stamp
      /\ f.deps = DepStamps(r.files, r.deps)
      /\ f.tuDeps = [t \in r.files |-> DOMAIN r.deps[t]]
  BY SavedFields
<1> HIDE DEF f
<1>2. ASSUME NEW t \in r.files, NEW h \in f.tuDeps[t]
      PROVE  f.deps[h] = Sec(now[h])
  <2>1. h \in DOMAIN r.deps[t]
    BY <1>1, <1>2
  <2>2. PICK u \in r.files : h \in DOMAIN r.deps[u] /\ f.deps[h] = r.deps[u][h]
    BY <1>1, <2>1, DepStampLeast
  <2> QED BY <2>2 DEF MergedQuiet, Current
<1>3. \A t \in r.files : f.stamp[t] = now[t]
  BY <1>1 DEF MergedQuiet
<1>4. \A t \in r.files : t \in FilesOf(f) /\ ~Changed(f, t, now)
  BY <1>1, <1>2, <1>3 DEF FilesOf, Whole, Changed
<1>5. DirtyTUs(f, r.files, now) = {}
  BY <1>4, Zenon DEF DirtyTUs
<1> QED BY <1>5 DEF f

-----------------------------------------------------------------------------
(* Loading.                                                                  *)

\* The dependencies a run takes over from the file.
LEMMA LoadedDeps ==
  ASSUME NEW now, NEW clk, NEW f, FileInv(f, now, clk), NEW t \in f.files
  PROVE  /\ t \in TUs /\ IsDeps(DependenciesOf(f)[t])
         /\ ~Changed(f, t, now) => f.stamp[t] = now[t] /\ Current(DependenciesOf(f)[t], now)
<1> DEFINE d == [h \in f.tuDeps[t] |-> f.deps[h]]
<1>1. t \in TUs /\ f.tuDeps[t] \subseteq Headers
      /\ \A h \in f.tuDeps[t] : f.deps[h] \in Nat \ {0}
  BY DEF FileInv, Stamped
<1>2. DependenciesOf(f)[t] = d
  BY <1>1 DEF DependenciesOf
<1>3. DOMAIN d = f.tuDeps[t] /\ d = [h \in DOMAIN d |-> d[h]]
      /\ \A h \in f.tuDeps[t] : d[h] = f.deps[h]
  OBVIOUS
<1> HIDE DEF d
<1>4. IsDeps(d)
  BY <1>1, <1>3 DEF IsDeps
<1>5. ~Changed(f, t, now) => f.stamp[t] = now[t] /\ Current(d, now)
  BY <1>3 DEF Changed, Current
<1> QED BY <1>1, <1>2, <1>4, <1>5

\* An entry on file that is not dirty is what a cold bake gives.
LEMMA FileEntryFresh ==
  ASSUME DiskInv(disk, clock), NEW f, FileInv(f, disk, clock), NEW t \in f.files \ f.skipped,
         ~Changed(f, t, disk), disk[t] # Missing, ~MissedHeader(f.graph[t])
  PROVE  SameContent(f.graph[t], Contribution(t, f.cfg))
<1>1. /\ t \in TUs /\ IsDeps(DependenciesOf(f)[t])
      /\ f.stamp[t] = disk[t] /\ Current(DependenciesOf(f)[t], disk)
  BY LoadedDeps
<1>2. /\ Single(f.graph[t])
      /\ Sound(f.graph[t], DependenciesOf(f)[t], disk[t], t, f.cfg, disk, clock)
  BY <1>1 DEF FileInv
<1> QED BY <1>1, <1>2, CleanEntry

\* Nothing is the same as nothing.
LEMMA NothingSame == SameContent(<<>>, <<>>)
BY DEF SameContent

\* A run that merges its bake with nothing edited ends as a cold bake.
LEMMA MergedEndsFresh ==
  ASSUME DiskInv(disk, clock), NEW r, Merged(r)
  PROVE  EndsFresh(r)
<1> SUFFICES ASSUME r.at = left.edits, NEW t \in TUs,
                    t \notin r.skipped, ~MissedHeader(r.graph[t]),
                    ~(disk[t] = Missing /\ t \notin r.toBake)
             PROVE  SameContent(r.graph[t], IF t \in r.files \/ r.graph[t] # <<>>
                                            THEN Contribution(t, r.cfg) ELSE <<>>)
  BY Zenon DEF EndsFresh
<1>1. CASE t \notin r.files
  <2>1. r.graph[t] = <<>>
    BY <1>1 DEF Merged, MergedInv
  <2> QED BY <1>1, <2>1, NothingSame
<1>2. CASE t \in r.files /\ disk[t] = Missing
  <2>1. r.graph[t] = <<>> /\ Contribution(t, r.cfg) = <<>>
    BY <1>2 DEF Merged, MergedQuiet, Contribution
  <2> QED BY <1>2, <2>1, NothingSame
<1>3. CASE t \in r.files /\ disk[t] # Missing
  <2>1. r.stamp[t] = disk[t] /\ Current(r.deps[t], disk)
    BY <1>3 DEF Merged, MergedQuiet
  <2>2. IsDeps(r.deps[t]) /\ Single(r.graph[t])
    BY DEF Merged, IsRun
  <2>3. Sound(r.graph[t], r.deps[t], disk[t], t, r.cfg, disk, clock)
    BY <1>3, <2>1 DEF Merged, MergedInv
  <2>4. SameContent(r.graph[t], Contribution(t, r.cfg))
    BY <1>3, <2>1, <2>2, <2>3, CleanEntry
  <2> QED BY <1>3, <2>4
<1> QED BY <1>1, <1>2, <1>3

\* The disk as a run stamps it.
LEMMA StampsNow ==
  ASSUME DiskInv(disk, clock), NEW files, files \subseteq TUs
  PROVE  Stamped(Stamps(files), files, clock) /\ \A t \in files : Stamps(files)[t] = disk[t]
BY DEF DiskInv, Stamped, Stamps, Missing

\* A run that starts to bake, field by field.
LEMMA BakingFields ==
  ASSUME NEW r, NEW graph, NEW deps, NEW todo, NEW changed, NEW skipped
  PROVE  LET b == Baking(r, graph, deps, todo, changed, skipped)
         IN /\ DOMAIN b = Fields /\ b = [x \in Fields |-> b[x]]
            /\ b.pc = "baking" /\ b.verb = r.verb /\ b.cfg = r.cfg /\ b.files = r.files
            /\ b.stamp = Stamps(r.files) /\ b.at = left.edits
            /\ b.graph = graph /\ b.deps = deps /\ b.todo = todo /\ b.toBake = todo
            /\ b.fresh = NoGraph /\ b.freshDeps = NoDeps
            /\ b.changed = changed /\ b.skipped = skipped
BY DEF Baking, Fields

\* A run that starts to bake is as it should be if the entries it keeps are.
LEMMA BakingStarts ==
  ASSUME DiskInv(disk, clock), left.edits \in Nat,
         NEW r, r.verb \in {"index", "serve"}, r.files \subseteq TUs,
         NEW graph, NEW deps, NEW todo, NEW changed, NEW skipped, todo \subseteq r.files,
         changed = {} => r.verb = "serve",
         OnTUs(graph), OnTUs(deps),
         \A t \in TUs : Single(graph[t]) /\ IsDeps(deps[t]),
         \A t \in (TUs \ r.files) \cup todo : graph[t] = <<>>,
         \A t \in todo : deps[t] = <<>>,
         \A t \in r.files \ todo : Current(deps[t], disk),
         \A t \in r.files \ (todo \cup skipped) :
           Sound(graph[t], deps[t], disk[t], t, r.cfg, disk, clock)
  PROVE  LET b == Baking(r, graph, deps, todo, changed, skipped)
         IN b.pc = "baking" /\ Baked(b)
<1> DEFINE b == Baking(r, graph, deps, todo, changed, skipped)
<1>1. /\ DOMAIN b = Fields /\ b = [x \in Fields |-> b[x]]
      /\ b.pc = "baking" /\ b.verb = r.verb /\ b.cfg = r.cfg /\ b.files = r.files
      /\ b.stamp = Stamps(r.files) /\ b.at = left.edits
      /\ b.graph = graph /\ b.deps = deps /\ b.todo = todo /\ b.toBake = todo
      /\ b.fresh = NoGraph /\ b.freshDeps = NoDeps
      /\ b.changed = changed /\ b.skipped = skipped
  BY BakingFields
<1> HIDE DEF b
<1>2. /\ Stamped(b.stamp, b.files, clock)
      /\ \A t \in b.files : b.stamp[t] = disk[t]
  BY <1>1, StampsNow
<1>3. \A t \in TUs : NoGraph[t] = <<>> /\ NoDeps[t] = <<>>
  BY DEF NoGraph, NoDeps
<1>4. OnTUs(NoGraph) /\ OnTUs(NoDeps)
  BY DEF NoGraph, NoDeps, OnTUs
<1>5. \A t \in TUs : Single(b.fresh[t]) /\ IsDeps(b.freshDeps[t]) /\ Current(b.freshDeps[t], disk)
  BY <1>1, <1>3, OneIsSingle, NoDepsCurrent
<1>6. IsRun(b, clock, left.edits)
  <2>1. b.verb \in {"index", "serve"} /\ b.at \in Nat /\ left.edits <= b.at
        /\ b.todo \subseteq b.toBake /\ b.toBake \subseteq b.files
    BY <1>1
  <2>2. /\ OnTUs(b.graph) /\ OnTUs(b.deps) /\ OnTUs(b.fresh) /\ OnTUs(b.freshDeps)
        /\ \A t \in TUs : IsDeps(b.deps[t]) /\ IsDeps(b.freshDeps[t])
        /\ \A t \in TUs : Single(b.graph[t]) /\ Single(b.fresh[t])
    BY <1>1, <1>4, <1>5
  <2> QED BY <1>1, <1>2, <2>1, <2>2, Zenon DEF IsRun
<1>7. BakingInv(b, disk, clock)
  <2>1. \A t \in b.files \ (b.toBake \cup b.skipped) :
          Sound(b.graph[t], b.deps[t], b.stamp[t], t, b.cfg, disk, clock)
    BY <1>1, <1>2
  <2>2. b.toBake \ (b.todo \cup b.skipped) = {}
    BY <1>1
  <2> QED BY <1>1, <1>3, <2>1, <2>2 DEF BakingInv
<1>8. BakingQuiet(b, disk, left.edits)
  <2>1. \A t \in b.files : Current(b.deps[t], disk)
    BY <1>1, NoDepsCurrent
  <2>2. \A t \in TUs : b.fresh[t] = <<>>
    BY <1>1, <1>3
  <2> QED BY <1>1, <1>2, <1>5, <2>1, <2>2 DEF BakingQuiet
<1> QED BY <1>1, <1>6, <1>7, <1>8 DEF Baked, b

\* A rebuild starts from nothing.
LEMMA RebuildStarts ==
  ASSUME DiskInv(disk, clock), left.edits \in Nat, NEW r, LaunchedInv(r)
  PROVE  Rebuild(r).pc = "baking" /\ Baked(Rebuild(r))
<1>1. r.verb \in {"index", "serve"} /\ r.files \subseteq TUs /\ r.files # {}
  BY DEF LaunchedInv
<1>2. /\ OnTUs(NoGraph) /\ OnTUs(NoDeps)
      /\ \A t \in TUs : NoGraph[t] = <<>> /\ NoDeps[t] = <<>>
  BY DEF NoGraph, NoDeps, OnTUs
<1>3. \A t \in TUs : Single(NoGraph[t]) /\ IsDeps(NoDeps[t])
  BY <1>2, OneIsSingle, NoDepsCurrent
<1>4. /\ r.files \subseteq r.files /\ r.files \ r.files = {} /\ r.files \ (r.files \cup {}) = {}
      /\ \A t \in (TUs \ r.files) \cup r.files : NoGraph[t] = <<>>
      /\ \A t \in r.files : NoDeps[t] = <<>>
  BY <1>1, <1>2
<1> DEFINE b == Baking(r, NoGraph, NoDeps, r.files, r.files, {})
<1>5. b.pc = "baking" /\ Baked(b)
  BY <1>1, <1>2, <1>3, <1>4, BakingStarts
<1> QED BY <1>5 DEF Rebuild

\* A refresh starts from the entries of the file that are up to date.
LEMMA RefreshStarts ==
  ASSUME DiskInv(disk, clock), left.edits \in Nat, NEW r, LaunchedInv(r),
         FileInv(r.snap, disk, clock), r.snap.cfg = r.cfg,
         ~(Unchanged(r) /\ r.verb = "index")
  PROVE  Refresh(r, r.snap).pc = "baking" /\ Baked(Refresh(r, r.snap))
<1> DEFINE f == r.snap
           todo == Dirty(r)
           graph == [t \in TUs |-> IF t \in Removed(r) THEN <<>> ELSE f.graph[t]]
           deps == [t \in TUs |-> IF t \in Dropped(r) \cup Dirty(r) THEN <<>>
                                  ELSE DependenciesOf(f)[t]]
           changed == Dropped(r) \cup Dirty(r)
           skipped == f.skipped \ (Dropped(r) \cup Dirty(r))
<1>1. r.verb \in {"index", "serve"} /\ r.files \subseteq TUs
  BY DEF LaunchedInv
<1>2. FilesOf(f) = f.files /\ f.files \subseteq TUs
  BY DEF FileInv, FilesOf, Stamped
<1>3. /\ todo \subseteq r.files
      /\ \A t \in r.files \ todo : t \in f.files /\ ~Changed(f, t, disk)
  BY <1>2 DEF Dirty, DirtyTUs
<1>4. changed = {} => r.verb = "serve"
  BY <1>1 DEF Unchanged
<1>5. /\ \A t \in TUs : graph[t] = IF t \in Removed(r) THEN <<>> ELSE f.graph[t]
      /\ \A t \in TUs : deps[t] = IF t \in Dropped(r) \cup Dirty(r) THEN <<>>
                                  ELSE DependenciesOf(f)[t]
      /\ OnTUs(graph) /\ OnTUs(deps)
  BY DEF OnTUs
<1>6. \A t \in TUs : t \in f.files \/ (f.graph[t] = <<>> /\ DependenciesOf(f)[t] = <<>>)
  BY DEF FileInv, DependenciesOf
<1>7. \A t \in r.files \ todo : t \notin Removed(r) /\ t \notin Dropped(r)
  BY DEF Removed, Dropped
<1> HIDE DEF graph, deps
<1>8. ASSUME NEW t \in TUs
      PROVE  Single(graph[t]) /\ IsDeps(deps[t])
  <2>1. Single(f.graph[t])
    BY DEF FileInv
  <2>2. IsDeps(DependenciesOf(f)[t])
    <3>1. CASE t \in f.files
      BY <3>1, LoadedDeps
    <3>2. CASE t \notin f.files
      BY <1>6, <3>2, NoDepsCurrent
    <3> QED BY <3>1, <3>2
  <2> QED BY <1>5, <2>1, <2>2, OneIsSingle, NoDepsCurrent
<1>9. ASSUME NEW t \in (TUs \ r.files) \cup todo
      PROVE  graph[t] = <<>>
  <2>1. t \in TUs
    BY <1>1, <1>3
  <2>2. t \in f.files => t \in Removed(r)
    BY <1>2 DEF Removed, Dropped
  <2> QED BY <1>5, <1>6, <2>1, <2>2
<1>10. \A t \in todo : deps[t] = <<>>
  BY <1>1, <1>3, <1>5
<1>11. ASSUME NEW t \in r.files \ todo
       PROVE  /\ Current(deps[t], disk)
              /\ t \notin skipped => Sound(graph[t], deps[t], disk[t], t, r.cfg, disk, clock)
  <2>1. t \in TUs /\ t \in f.files /\ ~Changed(f, t, disk)
    BY <1>1, <1>3
  <2>2. graph[t] = f.graph[t] /\ deps[t] = DependenciesOf(f)[t]
    BY <1>5, <1>7, <2>1
  <2>3. f.stamp[t] = disk[t] /\ Current(DependenciesOf(f)[t], disk)
    BY <2>1, LoadedDeps
  <2>4. t \notin skipped => t \in f.files \ f.skipped
    BY <1>7, <2>1
  <2>5. t \notin skipped =>
          Sound(f.graph[t], DependenciesOf(f)[t], f.stamp[t], t, f.cfg, disk, clock)
    BY <2>4 DEF FileInv
  <2> QED BY <2>2, <2>3, <2>5
<1> DEFINE b == Baking(r, graph, deps, todo, changed, skipped)
<1>12. b.pc = "baking" /\ Baked(b)
  <2> HIDE DEF todo, changed, skipped
  <2>1. \A t \in r.files \ todo : Current(deps[t], disk)
    BY <1>11
  <2>2. \A t \in r.files \ (todo \cup skipped) :
          Sound(graph[t], deps[t], disk[t], t, r.cfg, disk, clock)
    BY <1>11
  <2> QED BY <1>1, <1>3, <1>4, <1>5, <1>8, <1>9, <1>10, <2>1, <2>2, BakingStarts
<1> QED BY <1>12 DEF Refresh, graph, deps

\* An unchanged index is what a cold bake gives, and settled.
LEMMA UnchangedEnds ==
  ASSUME DiskInv(disk, clock), NEW r, LaunchedInv(r), Unchanged(r),
         Whole(Load), FileInv(Load, disk, clock), r.snap.cfg = r.cfg,
         NEW d, d.files = r.files, d.cfg = r.cfg, d.toBake = {},
         d.graph = r.snap.graph, d.skipped = r.snap.skipped
  PROVE  EndsFresh(d) /\ Settled(d)
<1> DEFINE f == Load
<1>1. r.snap = f
  BY DEF LaunchedInv
<1> HIDE DEF f
<1>2. FilesOf(f) = f.files /\ f.files \subseteq TUs
  BY DEF FileInv, FilesOf, Stamped, f
<1>3. f.files = r.files /\ \A t \in r.files : ~Changed(f, t, disk)
  BY <1>1, <1>2 DEF Unchanged, Dropped, Dirty, DirtyTUs
<1>4. Settled(d)
  BY <1>1, <1>2, <1>3 DEF Settled, Unchanged, Dirty, f
<1>5. EndsFresh(d)
  <2> SUFFICES ASSUME NEW t \in TUs, t \notin d.skipped, ~MissedHeader(d.graph[t]),
                      ~(disk[t] = Missing /\ t \notin d.toBake)
               PROVE  SameContent(d.graph[t], IF t \in d.files \/ d.graph[t] # <<>>
                                              THEN Contribution(t, d.cfg) ELSE <<>>)
    BY Zenon DEF EndsFresh
  <2>1. CASE t \in f.files
    <3>1. t \in f.files \ f.skipped /\ ~MissedHeader(f.graph[t]) /\ disk[t] # Missing
      BY <1>1, <2>1
    <3>2. SameContent(f.graph[t], Contribution(t, f.cfg))
      BY <1>3, <3>1, FileEntryFresh DEF f
    <3> QED BY <1>1, <1>3, <2>1, <3>2
  <2>2. CASE t \notin f.files
    <3>1. f.graph[t] = <<>>
      BY <2>2 DEF FileInv, f
    <3> QED BY <1>1, <1>3, <2>2, <3>1, NothingSame
  <2> QED BY <2>1, <2>2
<1> QED BY <1>4, <1>5

-----------------------------------------------------------------------------
(* Baking.                                                                   *)

\* One TU is parsed, to its end or not.
LEMMA OneBaked ==
  ASSUME NEW r, Baked(r), NEW t \in r.todo, NEW k, NEW g, NEW d,
         DOMAIN k = Fields, k = [x \in Fields |-> k[x]],
         k.verb = r.verb, k.cfg = r.cfg, k.files = r.files, k.stamp = r.stamp, k.at = r.at,
         k.graph = r.graph, k.deps = r.deps, k.toBake = r.toBake, k.changed = r.changed,
         k.todo = r.todo \ {t}, r.skipped \subseteq k.skipped,
         k.fresh = [r.fresh EXCEPT ![t] = g], k.freshDeps = [r.freshDeps EXCEPT ![t] = d],
         Single(g), IsDeps(d), Current(d, disk), disk[t] = Missing => g = <<>>,
         t \notin k.skipped => Sound(g, d, r.stamp[t], t, r.cfg, disk, clock)
  PROVE  Baked(k)
<1>1. IsRun(r, clock, left.edits) /\ BakingInv(r, disk, clock) /\ BakingQuiet(r, disk, left.edits)
  BY DEF Baked
<1>2. t \in r.toBake /\ t \in r.files /\ r.files \subseteq TUs /\ t \in TUs
  BY <1>1 DEF IsRun, Stamped
<1>3. OnTUs(r.fresh) /\ OnTUs(r.freshDeps)
  BY <1>1 DEF IsRun
<1>4. /\ OnTUs(k.fresh) /\ OnTUs(k.freshDeps)
      /\ k.fresh[t] = g /\ k.freshDeps[t] = d
      /\ \A u \in TUs \ {t} : k.fresh[u] = r.fresh[u] /\ k.freshDeps[u] = r.freshDeps[u]
  BY <1>2, <1>3 DEF OnTUs
<1>5. IsRun(k, clock, left.edits)
  <2>1. \A u \in TUs : IsDeps(k.freshDeps[u]) /\ Single(k.fresh[u])
    BY <1>1, <1>4 DEF IsRun
  <2>2. \A u \in TUs : IsDeps(k.deps[u]) /\ Single(k.graph[u])
    BY <1>1 DEF IsRun
  <2>3. k.verb \in {"index", "serve"} /\ Stamped(k.stamp, k.files, clock)
        /\ k.at \in Nat /\ left.edits <= k.at
        /\ k.todo \subseteq k.toBake /\ k.toBake \subseteq k.files
        /\ OnTUs(k.graph) /\ OnTUs(k.deps)
    BY <1>1 DEF IsRun
  <2> QED BY <1>4, <2>1, <2>2, <2>3, Zenon DEF IsRun
<1>6. BakingInv(k, disk, clock)
  <2>1. \A u \in (TUs \ k.toBake) \cup k.todo : k.fresh[u] = <<>> /\ k.freshDeps[u] = <<>>
    <3>1. \A u \in (TUs \ k.toBake) \cup k.todo :
            u \in TUs \ {t} /\ u \in (TUs \ r.toBake) \cup r.todo
      BY <1>1, <1>2 DEF IsRun, Stamped
    <3>2. \A u \in (TUs \ r.toBake) \cup r.todo : r.fresh[u] = <<>> /\ r.freshDeps[u] = <<>>
      BY <1>1 DEF BakingInv
    <3> QED BY <1>4, <3>1, <3>2
  <2>2. ASSUME NEW u \in k.files \ (k.toBake \cup k.skipped)
        PROVE  Sound(k.graph[u], k.deps[u], k.stamp[u], u, k.cfg, disk, clock)
    <3>1. u \in r.files \ (r.toBake \cup r.skipped)
      OBVIOUS
    <3> QED BY <1>1, <3>1 DEF BakingInv
  <2>3. ASSUME NEW u \in k.toBake \ (k.todo \cup k.skipped)
        PROVE  Sound(k.fresh[u], k.freshDeps[u], k.stamp[u], u, k.cfg, disk, clock)
    <3>1. CASE u = t
      BY <1>4, <2>3, <3>1
    <3>2. CASE u # t
      <4>1. u \in r.toBake \ (r.todo \cup r.skipped) /\ u \in TUs
        BY <1>1, <2>3, <3>2 DEF IsRun, Stamped
      <4> QED BY <1>1, <1>4, <3>2, <4>1 DEF BakingInv
    <3> QED BY <3>1, <3>2
  <2>4. /\ k.changed = {} => k.verb = "serve"
        /\ \A u \in TUs \ k.files : k.graph[u] = <<>>
        /\ \A u \in k.toBake : k.graph[u] = <<>> /\ k.deps[u] = <<>>
    BY <1>1 DEF BakingInv
  <2> QED BY <2>1, <2>2, <2>3, <2>4 DEF BakingInv
<1>7. BakingQuiet(k, disk, left.edits)
  <2> SUFFICES ASSUME k.at = left.edits
               PROVE  /\ \A u \in k.files : k.stamp[u] = disk[u] /\ Current(k.deps[u], disk)
                      /\ \A u \in TUs : Current(k.freshDeps[u], disk)
                      /\ \A u \in k.toBake : disk[u] = Missing => k.fresh[u] = <<>>
    BY DEF BakingQuiet
  <2>1. \A u \in k.files : k.stamp[u] = disk[u] /\ Current(k.deps[u], disk)
    BY <1>1 DEF BakingQuiet
  <2>2. \A u \in TUs : Current(k.freshDeps[u], disk)
    BY <1>1, <1>4 DEF BakingQuiet
  <2>3. \A u \in k.toBake : u \in TUs /\ (disk[u] = Missing => k.fresh[u] = <<>>)
    BY <1>1, <1>4 DEF BakingQuiet, IsRun, Stamped
  <2> QED BY <2>1, <2>2, <2>3
<1> QED BY <1>5, <1>6, <1>7 DEF Baked

\* All that is left to bake is given up.
LEMMA BakeAborted ==
  ASSUME NEW r, Baked(r), r.todo = r.toBake, NEW k,
         DOMAIN k = Fields, k = [x \in Fields |-> k[x]],
         k.verb = r.verb, k.cfg = r.cfg, k.files = r.files, k.stamp = r.stamp, k.at = r.at,
         k.graph = r.graph, k.deps = r.deps, k.toBake = r.toBake, k.changed = r.changed,
         k.todo = {}, k.skipped = r.skipped \cup r.toBake,
         k.fresh = r.fresh, k.freshDeps = r.freshDeps
  PROVE  Baked(k)
<1>1. IsRun(r, clock, left.edits) /\ BakingInv(r, disk, clock) /\ BakingQuiet(r, disk, left.edits)
  BY DEF Baked
<1>2. IsRun(k, clock, left.edits)
  BY <1>1, Zenon DEF IsRun
<1>3. BakingInv(k, disk, clock)
  <2>1. /\ k.files \ (k.toBake \cup k.skipped) \subseteq r.files \ (r.toBake \cup r.skipped)
        /\ k.toBake \ (k.todo \cup k.skipped) = {}
        /\ (TUs \ k.toBake) \cup k.todo \subseteq (TUs \ r.toBake) \cup r.todo
    OBVIOUS
  <2>2. /\ k.changed = {} => k.verb = "serve"
        /\ \A t \in TUs \ k.files : k.graph[t] = <<>>
        /\ \A t \in k.toBake : k.graph[t] = <<>> /\ k.deps[t] = <<>>
    BY <1>1 DEF BakingInv
  <2>3. \A t \in (TUs \ k.toBake) \cup k.todo : k.fresh[t] = <<>> /\ k.freshDeps[t] = <<>>
    BY <1>1, <2>1 DEF BakingInv
  <2>4. \A t \in k.files \ (k.toBake \cup k.skipped) :
          Sound(k.graph[t], k.deps[t], k.stamp[t], t, k.cfg, disk, clock)
    BY <1>1, <2>1 DEF BakingInv
  <2> QED BY <2>1, <2>2, <2>3, <2>4 DEF BakingInv
<1>4. BakingQuiet(k, disk, left.edits)
  BY <1>1 DEF BakingQuiet
<1> QED BY <1>2, <1>3, <1>4 DEF Baked

\* Merging what was baked with what was kept.
LEMMA BakeMerged ==
  ASSUME NEW r, Baked(r), r.todo = {}, NEW k,
         DOMAIN k = Fields, k = [x \in Fields |-> k[x]],
         k.verb = r.verb, k.cfg = r.cfg, k.files = r.files, k.stamp = r.stamp, k.at = r.at,
         k.toBake = r.toBake, k.changed = r.changed, k.todo = {}, k.skipped = r.skipped,
         k.graph = [t \in TUs |-> r.graph[t] \o r.fresh[t]], k.deps = NewDeps(r),
         k.fresh = NoGraph, k.freshDeps = NoDeps
  PROVE  Merged(k)
<1>1. IsRun(r, clock, left.edits) /\ BakingInv(r, disk, clock) /\ BakingQuiet(r, disk, left.edits)
  BY DEF Baked
<1>2. r.toBake \subseteq r.files /\ r.files \subseteq TUs
  BY <1>1 DEF IsRun, Stamped
<1>3. ASSUME NEW t \in TUs
      PROVE  IF t \in r.toBake THEN k.graph[t] = r.fresh[t] /\ k.deps[t] = r.freshDeps[t]
             ELSE k.graph[t] = r.graph[t] /\ k.deps[t] = r.deps[t]
  <2>1. k.graph[t] = r.graph[t] \o r.fresh[t]
        /\ k.deps[t] = IF r.freshDeps[t] # <<>> THEN r.freshDeps[t] ELSE r.deps[t]
    BY DEF NewDeps
  <2>2. Single(r.graph[t]) /\ Single(r.fresh[t])
    BY <1>1 DEF IsRun
  <2>3. CASE t \in r.toBake
    <3>1. r.graph[t] = <<>> /\ r.deps[t] = <<>>
      BY <1>1, <2>3 DEF BakingInv
    <3> QED BY <2>1, <2>2, <2>3, <3>1, JoinSingles
  <2>4. CASE t \notin r.toBake
    <3>1. r.fresh[t] = <<>> /\ r.freshDeps[t] = <<>>
      BY <1>1, <2>4 DEF BakingInv
    <3> QED BY <2>1, <2>2, <2>4, <3>1, JoinSingles
  <2> QED BY <2>3, <2>4
<1>4. \A t \in TUs : NoGraph[t] = <<>> /\ NoDeps[t] = <<>>
  BY DEF NoGraph, NoDeps
<1>5. IsRun(k, clock, left.edits)
  <2>1. OnTUs(k.graph) /\ OnTUs(k.deps) /\ OnTUs(k.fresh) /\ OnTUs(k.freshDeps)
    BY DEF OnTUs, NoGraph, NoDeps, NewDeps
  <2>2. \A t \in TUs : IsDeps(k.deps[t]) /\ Single(k.graph[t])
    BY <1>1, <1>3 DEF IsRun
  <2>3. \A t \in TUs : IsDeps(k.freshDeps[t]) /\ Single(k.fresh[t])
    BY <1>4, NoDepsCurrent, OneIsSingle
  <2>4. k.verb \in {"index", "serve"} /\ Stamped(k.stamp, k.files, clock)
        /\ k.at \in Nat /\ left.edits <= k.at
        /\ k.todo \subseteq k.toBake /\ k.toBake \subseteq k.files
    BY <1>1 DEF IsRun
  <2> QED BY <2>1, <2>2, <2>3, <2>4, Zenon DEF IsRun
<1>6. MergedInv(k, disk, clock)
  <2>1. ASSUME NEW t \in TUs \ k.files
        PROVE  k.graph[t] = <<>>
    <3>1. t \notin r.toBake /\ r.graph[t] = <<>>
      BY <1>1, <1>2, <2>1 DEF BakingInv
    <3> QED BY <1>3, <3>1
  <2>2. ASSUME NEW t \in k.files \ k.skipped
        PROVE  Sound(k.graph[t], k.deps[t], k.stamp[t], t, k.cfg, disk, clock)
    <3>1. t \in TUs
      BY <1>2, <2>2
    <3>2. CASE t \in r.toBake
      <4>1. t \in r.toBake \ (r.todo \cup r.skipped)
        BY <2>2, <3>2
      <4> QED BY <1>1, <1>3, <3>1, <3>2, <4>1 DEF BakingInv
    <3>3. CASE t \notin r.toBake
      <4>1. t \in r.files \ (r.toBake \cup r.skipped)
        BY <2>2, <3>3
      <4> QED BY <1>1, <1>3, <3>1, <3>3, <4>1 DEF BakingInv
    <3> QED BY <3>2, <3>3
  <2> QED BY <2>1, <2>2 DEF MergedInv
<1>7. MergedQuiet(k, disk, left.edits)
  <2> SUFFICES ASSUME k.at = left.edits
               PROVE  /\ \A t \in k.files : k.stamp[t] = disk[t] /\ Current(k.deps[t], disk)
                      /\ \A t \in k.toBake : disk[t] = Missing => k.graph[t] = <<>>
    BY DEF MergedQuiet
  <2>1. \A t \in k.files : k.stamp[t] = disk[t] /\ Current(k.deps[t], disk)
    BY <1>1, <1>2, <1>3 DEF BakingQuiet
  <2>2. \A t \in k.toBake : disk[t] = Missing => k.graph[t] = <<>>
    BY <1>1, <1>2, <1>3 DEF BakingQuiet
  <2> QED BY <2>1, <2>2
<1> QED BY <1>5, <1>6, <1>7 DEF Merged

-----------------------------------------------------------------------------
(* Steps.                                                                    *)

\* The facts of the invariant that a step relies on.
LEMMA InvFacts ==
  ASSUME Inv, NEW p \in Procs
  PROVE  /\ DiskInv(disk, clock)
         /\ left.edits \in Nat /\ run = [q \in Procs |-> run[q]]
         /\ RunInv(run[p])
         /\ Whole(Load) => idx # 0 /\ Load = data[idx] /\ FileInv(Load, disk, clock)
<1>1. ~Whole(AbsentFile)
  BY DEF Whole, AbsentFile
<1> QED BY <1>1 DEF Inv, TypeInv, Load

\* What the invariant says of a run that has decided.
LEMMA RunFacts ==
  ASSUME NEW r, RunInv(r)
  PROVE  /\ r.pc = "launched" => LaunchedInv(r)
         /\ r.pc = "baking" => Baked(r)
         /\ r.pc \in {"saving", "writing", "written"} => Merged(r)
         /\ r.pc = "writing" => tmp # 0 /\ r.ino = tmp /\ r.others = {}
         /\ r.pc = "written" => tmp # 0 /\ data[tmp] = Saved(r)
         /\ r.pc = "serving" => IsRun(r, clock, left.edits) /\ EndsFresh(r)
BY DEF RunInv, Off, LaunchedInv

\* The bounds are spent, not overdrawn.
Spent == left' \in [edits : Nat, runs : Nat, kills : Nat, failures : Nat, reindex : Nat]

\* A step that leaves the files alone.
LEMMA FilesKept ==
  ASSUME Inv, OneProcess, NEW p \in Procs, NEW k, run' = [run EXCEPT ![p] = k],
         UNCHANGED <<disk, clock, data, idx, tmp>>, Spent, RunInv(run[p])'
  PROVE  Inv'
<1>1. run' = [q \in Procs |-> run'[q]] /\ \A q \in Procs : q = p
  BY DEF Inv, TypeInv, OneProcess
<1>2. \A q \in Procs : RunInv(run[q])'
  BY <1>1
<1> QED BY <1>1, <1>2 DEF Inv, TypeInv, Spent

\* A process starts: it loads the index and selects its TUs (main.cpp).
LEMMA LaunchStep == ASSUME Inv, OneProcess, NEW p \in Procs, Launch(p) PROVE Inv'
<1>1. PICK verb \in {"index", "serve"}, want \in SUBSET TUs, cfg \in Configs :
        /\ Selected(want, Load) # {}
        /\ run' = [run EXCEPT ![p] = [pc |-> "launched", verb |-> verb, cfg |-> cfg,
                                      files |-> Selected(want, Load), snap |-> Load]]
  BY DEF Launch, Becomes
<1>2. Selected(want, Load) \subseteq TUs
  BY InvFacts DEF Selected, OnDisk, FilesOf, FileInv, Stamped
<1>3. UNCHANGED <<disk, clock, data, idx, tmp>> /\ Load' = Load
  BY DEF Launch, Load
<1>4. Spent
  BY DEF Launch, Inv, TypeInv, Spent
<1>5. PICK files, snap : files = Selected(want, Load) /\ snap = Load
  OBVIOUS
<1>6. run'[p] = [pc |-> "launched", verb |-> verb, cfg |-> cfg, files |-> files, snap |-> snap]
  BY <1>1, <1>5 DEF Inv, TypeInv
<1>7. LaunchedInv(run[p])'
  BY <1>1, <1>2, <1>3, <1>5, <1>6 DEF LaunchedInv
<1>8. RunInv(run[p])'
  BY <1>7 DEF RunInv
<1> QED BY <1>1, <1>3, <1>4, <1>5, <1>8, FilesKept

\* No usable index: everything is baked.
LEMMA DecideRebuildStep == ASSUME Inv, OneProcess, NEW p \in Procs, DecideRebuild(p) PROVE Inv'
<1>1. LaunchedInv(run[p])
  BY InvFacts, RunFacts DEF DecideRebuild
<1>2. PICK k : k = Rebuild(run[p])
  OBVIOUS
<1>3. k.pc = "baking" /\ Baked(k)
  BY <1>1, <1>2, InvFacts, RebuildStarts
<1>4. run' = [run EXCEPT ![p] = k] /\ run'[p] = k
  BY <1>2 DEF DecideRebuild, Becomes, Inv, TypeInv
<1>5. UNCHANGED <<disk, clock, data, idx, tmp>> /\ left' = left /\ Spent
  BY DEF DecideRebuild, Spent, Inv, TypeInv
<1>6. Baked(run[p])'
  BY <1>3, <1>4, <1>5 DEF Baked
<1>7. RunInv(run[p])'
  BY <1>3, <1>4, <1>6 DEF RunInv
<1> QED BY <1>4, <1>5, <1>7, FilesKept

\* Nothing is dirty or removed: the loaded index is served or left as it is.
LEMMA DecideUnchangedStep ==
  ASSUME Inv, OneProcess, NEW p \in Procs, DecideUnchanged(p) PROVE Inv'
<1> DEFINE r == run[p]
<1>1. LaunchedInv(r) /\ ~MustRebuild(r) /\ Unchanged(r)
  BY InvFacts, RunFacts DEF DecideUnchanged
<1>2. r.snap = Load /\ Whole(Load) /\ r.snap.cfg = r.cfg
  BY <1>1 DEF LaunchedInv, MustRebuild
<1>3. PICK k : k = [pc |-> "done", verb |-> r.verb, cfg |-> r.cfg, files |-> r.files,
                    at |-> left.edits, toBake |-> {},
                    graph |-> r.snap.graph, skipped |-> r.snap.skipped]
  OBVIOUS
<1>4. run' = [run EXCEPT ![p] = k] /\ run'[p] = k
  BY <1>3 DEF DecideUnchanged, Becomes, Inv, TypeInv
<1>5. UNCHANGED <<disk, clock, data, idx, tmp>> /\ left' = left /\ Spent
  BY DEF DecideUnchanged, Spent, Inv, TypeInv
<1>6. /\ k.pc = "done" /\ k.at = left.edits /\ k.toBake = {}
      /\ k.files = r.files /\ k.cfg = r.cfg
      /\ k.graph = r.snap.graph /\ k.skipped = r.snap.skipped
  BY <1>3
<1> HIDE DEF r
<1>7. EndsFresh(k) /\ Settled(k)
  <2>1. DiskInv(disk, clock) /\ FileInv(Load, disk, clock)
    BY <1>2, InvFacts
  <2> QED BY <1>1, <1>2, <1>6, <2>1, UnchangedEnds
<1>8. EndsFresh(run[p])' /\ Settled(run[p])'
  BY <1>4, <1>5, <1>7
     DEF EndsFresh, Settled, Load, Contribution, Content, DirtyTUs, Changed
<1>9. k.at \in Nat /\ left.edits <= k.at
  BY <1>6, InvFacts
<1>10. RunInv(run[p])'
  BY <1>4, <1>5, <1>6, <1>8, <1>9 DEF RunInv
<1> QED BY <1>4, <1>5, <1>10, FilesKept

\* Dirty and removed TUs are dropped from the loaded index, the rest is trusted.
LEMMA DecideRefreshStep ==
  ASSUME Inv, OneProcess, NEW p \in Procs, DecideRefresh(p) PROVE Inv'
<1> DEFINE r == run[p]
<1>1. LaunchedInv(r) /\ ~MustRebuild(r) /\ ~(Unchanged(r) /\ r.verb = "index")
  BY InvFacts, RunFacts DEF DecideRefresh
<1>2. r.snap = Load /\ Whole(Load) /\ r.snap.cfg = r.cfg
  BY <1>1 DEF LaunchedInv, MustRebuild
<1>3. PICK k : k = Refresh(r, r.snap)
  OBVIOUS
<1>4. run' = [run EXCEPT ![p] = k] /\ run'[p] = k
  BY <1>2, <1>3 DEF DecideRefresh, Becomes, Inv, TypeInv
<1>5. UNCHANGED <<disk, clock, data, idx, tmp>> /\ left' = left /\ Spent
  BY DEF DecideRefresh, Spent, Inv, TypeInv
<1> HIDE DEF r
<1>6. k.pc = "baking" /\ Baked(k)
  <2>1. DiskInv(disk, clock) /\ FileInv(r.snap, disk, clock) /\ left.edits \in Nat
    BY <1>2, InvFacts
  <2> QED BY <1>1, <1>2, <1>3, <2>1, RefreshStarts
<1>7. Baked(run[p])'
  BY <1>4, <1>5, <1>6 DEF Baked
<1>8. RunInv(run[p])'
  BY <1>4, <1>6, <1>7 DEF RunInv
<1> QED BY <1>4, <1>5, <1>8, FilesKept

\* A run that goes on baking.
LEMMA BakesOn ==
  ASSUME Inv, OneProcess, NEW p \in Procs, run[p].pc = "baking",
         NEW k, run' = [run EXCEPT ![p] = k], k.pc = "baking",
         UNCHANGED <<disk, clock, data, idx, tmp>>, Spent, left'.edits = left.edits, Baked(k)
  PROVE  Inv'
<1>1. run'[p] = k
  BY DEF Inv, TypeInv
<1>2. Baked(run[p])'
  BY <1>1 DEF Baked
<1>3. RunInv(run[p])'
  BY <1>1, <1>2 DEF RunInv
<1> QED BY <1>3, FilesKept

\* One TU is parsed; what it opened is noted with the stamps of that moment.
LEMMA ParseStep ==
  ASSUME Inv, OneProcess, NEW p \in Procs, NEW t \in TUs, Parse(p, t) PROVE Inv'
<1> DEFINE r == run[p]
<1>1. r.pc = "baking" /\ t \in r.todo /\ Baked(r)
  BY InvFacts, RunFacts DEF Parse
<1>2. DOMAIN r = Fields /\ r = [x \in Fields |-> r[x]] /\ OnTUs(r.fresh) /\ OnTUs(r.freshDeps)
  BY <1>1 DEF Baked, IsRun
<1>3. PICK g, d : g = Contribution(t, r.cfg) /\ d = Opened(t)
  OBVIOUS
<1> DEFINE fresh == [r.fresh EXCEPT ![t] = g]
           freshDeps == [r.freshDeps EXCEPT ![t] = d]
<1>4. PICK k : k = [r EXCEPT !.todo = r.todo \ {t}, !.fresh = fresh, !.freshDeps = freshDeps,
                             !.skipped = r.skipped]
  OBVIOUS
<1>5. run' = [run EXCEPT ![p] = k]
  <2>1. run' = [run EXCEPT ![p] = [r EXCEPT !.todo = r.todo \ {t}, !.fresh = fresh,
                                            !.freshDeps = freshDeps]]
    BY <1>3 DEF Parse
  <2>2. k = [r EXCEPT !.todo = r.todo \ {t}, !.fresh = fresh, !.freshDeps = freshDeps]
    <3> HIDE DEF r, fresh, freshDeps
    <3> QED BY <1>2, <1>4 DEF Fields
  <2> QED BY <2>1, <2>2
<1> HIDE DEF r, fresh, freshDeps
<1>6. /\ DOMAIN k = Fields /\ k = [x \in Fields |-> k[x]]
      /\ k.pc = r.pc /\ k.verb = r.verb /\ k.cfg = r.cfg /\ k.files = r.files
      /\ k.stamp = r.stamp /\ k.at = r.at
      /\ k.graph = r.graph /\ k.deps = r.deps /\ k.toBake = r.toBake /\ k.changed = r.changed
      /\ k.todo = r.todo \ {t} /\ k.skipped = r.skipped
      /\ k.fresh = fresh /\ k.freshDeps = freshDeps
  BY <1>2, <1>4 DEF Fields
<1>7. /\ Single(g) /\ IsDeps(d) /\ Current(d, disk)
      /\ Sound(g, d, r.stamp[t], t, r.cfg, disk, clock)
      /\ disk[t] = Missing => g = <<>>
  BY <1>3, InvFacts, ParseSound DEF Contribution
<1>8. Baked(k)
  BY <1>1, <1>6, <1>7, OneBaked DEF fresh, freshDeps
<1>9. UNCHANGED <<disk, clock, data, idx, tmp>> /\ Spent /\ left'.edits = left.edits
  BY DEF Parse, Spent, Inv, TypeInv
<1> QED BY <1>1, <1>5, <1>6, <1>8, <1>9, BakesOn DEF r

\* A parse that the guard cut short leaves part of its TU.
LEMMA CrashedParseStep ==
  ASSUME Inv, OneProcess, NEW p \in Procs, NEW t \in TUs, CrashedParse(p, t) PROVE Inv'
<1> DEFINE r == run[p]
<1>1. r.pc = "baking" /\ t \in r.todo /\ Baked(r) /\ disk[t] # Missing
  BY InvFacts, RunFacts DEF CrashedParse
<1>2. DOMAIN r = Fields /\ r = [x \in Fields |-> r[x]] /\ OnTUs(r.fresh) /\ OnTUs(r.freshDeps)
  BY <1>1 DEF Baked, IsRun
<1>3. PICK c \in LeftByCrash(t, r.cfg) :
        run' = [run EXCEPT ![p].todo = @ \ {t}, ![p].fresh[t] = c, ![p].skipped = @ \cup {t}]
  BY DEF CrashedParse
<1> DEFINE fresh == [r.fresh EXCEPT ![t] = c]
<1>4. PICK k : k = [r EXCEPT !.todo = r.todo \ {t}, !.fresh = fresh,
                             !.skipped = r.skipped \cup {t}]
  OBVIOUS
<1>5. run' = [run EXCEPT ![p] = k]
  BY <1>3, <1>4
<1>6. r.freshDeps[t] = <<>> /\ r.freshDeps = [r.freshDeps EXCEPT ![t] = <<>>]
  BY <1>1, <1>2 DEF Baked, BakingInv, OnTUs
<1> HIDE DEF r, fresh
<1>7. /\ DOMAIN k = Fields /\ k = [x \in Fields |-> k[x]]
      /\ k.pc = r.pc /\ k.verb = r.verb /\ k.cfg = r.cfg /\ k.files = r.files
      /\ k.stamp = r.stamp /\ k.at = r.at
      /\ k.graph = r.graph /\ k.deps = r.deps /\ k.toBake = r.toBake /\ k.changed = r.changed
      /\ k.todo = r.todo \ {t} /\ k.skipped = r.skipped \cup {t}
      /\ k.fresh = fresh /\ k.freshDeps = r.freshDeps
  BY <1>2, <1>4 DEF Fields
<1>8. Single(c) /\ IsDeps(<<>>) /\ Current(<<>>, disk)
  BY OneIsSingle, NoDepsCurrent DEF LeftByCrash
<1>9. Baked(k)
  BY <1>1, <1>6, <1>7, <1>8, OneBaked DEF fresh
<1>10. UNCHANGED <<disk, clock, data, idx, tmp>> /\ Spent /\ left'.edits = left.edits
  BY DEF CrashedParse, Spent, Inv, TypeInv
<1> QED BY <1>1, <1>5, <1>7, <1>9, <1>10, BakesOn DEF r

\* A parse takes the process down: nothing was saved.
LEMMA AbortedBakeStep ==
  ASSUME Inv, OneProcess, NEW p \in Procs, AbortedBake(p) PROVE Inv'
<1> DEFINE r == run[p]
<1>1. r.pc = "baking" /\ r.todo = r.toBake /\ Baked(r)
  BY InvFacts, RunFacts DEF AbortedBake
<1>2. DOMAIN r = Fields /\ r = [x \in Fields |-> r[x]]
  BY <1>1 DEF Baked, IsRun
<1>3. PICK k : k = [r EXCEPT !.todo = {}, !.skipped = r.skipped \cup r.toBake]
  OBVIOUS
<1>4. run' = [run EXCEPT ![p] = k]
  BY <1>3 DEF AbortedBake
<1> HIDE DEF r
<1>5. /\ DOMAIN k = Fields /\ k = [x \in Fields |-> k[x]]
      /\ k.pc = r.pc /\ k.verb = r.verb /\ k.cfg = r.cfg /\ k.files = r.files
      /\ k.stamp = r.stamp /\ k.at = r.at
      /\ k.graph = r.graph /\ k.deps = r.deps /\ k.toBake = r.toBake /\ k.changed = r.changed
      /\ k.todo = {} /\ k.skipped = r.skipped \cup r.toBake
      /\ k.fresh = r.fresh /\ k.freshDeps = r.freshDeps
  BY <1>2, <1>3 DEF Fields
<1>6. Baked(k)
  BY <1>1, <1>5, BakeAborted
<1>7. UNCHANGED <<disk, clock, data, idx, tmp>> /\ Spent /\ left'.edits = left.edits
  BY DEF AbortedBake, Spent, Inv, TypeInv
<1> QED BY <1>1, <1>4, <1>5, <1>6, <1>7, BakesOn DEF r

\* What is merged or ends fresh stays so while neither the disk nor the files move.
LEMMA StillSo ==
  ASSUME NEW r, UNCHANGED <<disk, clock>>, left'.edits = left.edits
  PROVE  /\ Baked(r) => Baked(r)'
         /\ Merged(r) => Merged(r)'
         /\ IsRun(r, clock, left.edits) => IsRun(r, clock, left.edits)'
         /\ EndsFresh(r) => EndsFresh(r)'
<1>1. (Baked(r) => Baked(r)') /\ (Merged(r) => Merged(r)')
      /\ (IsRun(r, clock, left.edits) => IsRun(r, clock, left.edits)')
  BY DEF Baked, Merged
<1>2. EndsFresh(r) => EndsFresh(r)'
  BY DEF EndsFresh, Contribution, Content
<1> QED BY <1>1, <1>2

\* The fresh indexes are merged into what was kept.
LEMMA AbsorbStep == ASSUME Inv, OneProcess, NEW p \in Procs, Absorb(p) PROVE Inv'
<1> DEFINE r == run[p]
           pc == IF r.changed # {} THEN "saving" ELSE AfterSave(r)
           graph == [t \in TUs |-> r.graph[t] \o r.fresh[t]]
<1>1. r.pc = "baking" /\ r.todo = {} /\ Baked(r)
  BY InvFacts, RunFacts DEF Absorb
<1>2. DOMAIN r = Fields /\ r = [x \in Fields |-> r[x]]
  BY <1>1 DEF Baked, IsRun
<1>3. PICK k : k = [r EXCEPT !.pc = pc, !.graph = graph, !.deps = NewDeps(r),
                             !.fresh = NoGraph, !.freshDeps = NoDeps]
  OBVIOUS
<1>4. run' = [run EXCEPT ![p] = k]
  BY <1>3 DEF Absorb
<1> HIDE DEF r, pc, graph
<1>5. /\ DOMAIN k = Fields /\ k = [x \in Fields |-> k[x]]
      /\ k.pc = pc /\ k.verb = r.verb /\ k.cfg = r.cfg /\ k.files = r.files
      /\ k.stamp = r.stamp /\ k.at = r.at
      /\ k.graph = graph /\ k.deps = NewDeps(r) /\ k.toBake = r.toBake /\ k.changed = r.changed
      /\ k.todo = r.todo /\ k.skipped = r.skipped
      /\ k.fresh = NoGraph /\ k.freshDeps = NoDeps
  BY <1>2, <1>3 DEF Fields
<1>6. Merged(k)
  BY <1>1, <1>5, BakeMerged DEF graph
<1>7. EndsFresh(k) /\ IsRun(k, clock, left.edits)
  BY <1>6, InvFacts, MergedEndsFresh DEF Merged
<1>8. UNCHANGED <<disk, clock, data, idx, tmp>> /\ left' = left /\ Spent
  BY DEF Absorb, Spent, Inv, TypeInv
<1>9. run'[p] = k
  BY <1>4 DEF Inv, TypeInv
<1>10. k.pc = "saving" \/ k.pc = "serving"
  BY <1>1, <1>5 DEF pc, AfterSave, Baked, BakingInv
<1>11. Merged(run[p])' /\ EndsFresh(run[p])' /\ IsRun(run[p], clock, left.edits)'
  BY <1>6, <1>7, <1>8, <1>9, StillSo
<1>12. RunInv(run[p])'
  BY <1>9, <1>10, <1>11 DEF RunInv
<1> QED BY <1>4, <1>8, <1>12, FilesKept

-----------------------------------------------------------------------------
(* Saving and serving.                                                       *)

\* A run further on in its save.
At(r, pc, ino, others) == [r EXCEPT !.pc = pc, !.ino = ino, !.others = others]

\* Where a run is in its saving does not matter to what it saves.
LEMMA SavingOn ==
  ASSUME NEW r, Merged(r), NEW pc, NEW ino, NEW others
  PROVE  LET k == At(r, pc, ino, others)
         IN /\ k.pc = pc /\ k.ino = ino /\ k.others = others /\ k.verb = r.verb
            /\ Merged(k) /\ Saved(k) = Saved(r)
<1> DEFINE k == At(r, pc, ino, others)
<1>1. IsRun(r, clock, left.edits) /\ MergedInv(r, disk, clock) /\ MergedQuiet(r, disk, left.edits)
  BY DEF Merged
<1>2. DOMAIN r = Fields /\ r = [x \in Fields |-> r[x]]
  BY <1>1 DEF IsRun
<1>3. /\ DOMAIN k = Fields /\ k = [x \in Fields |-> k[x]]
      /\ k.verb = r.verb /\ k.cfg = r.cfg /\ k.files = r.files
      /\ k.stamp = r.stamp /\ k.at = r.at
      /\ k.graph = r.graph /\ k.deps = r.deps /\ k.toBake = r.toBake
      /\ k.todo = r.todo /\ k.skipped = r.skipped
      /\ k.fresh = r.fresh /\ k.freshDeps = r.freshDeps
      /\ k.pc = pc /\ k.ino = ino /\ k.others = others
  BY <1>2 DEF Fields, At
<1> HIDE DEF k
<1>4. IsRun(k, clock, left.edits)
  BY <1>1, <1>3, Zenon DEF IsRun
<1>5. MergedInv(k, disk, clock) /\ MergedQuiet(k, disk, left.edits)
  BY <1>1, <1>3 DEF MergedInv, MergedQuiet
<1>6. Saved(k) = Saved(r)
  BY <1>3 DEF Saved
<1> QED BY <1>3, <1>4, <1>5, <1>6 DEF Merged, k

\* The inode a process opens for writing is not the one the index names.
LEMMA OpenedInode ==
  ASSUME Inv, OneProcess, NEW p \in Procs, run[p].pc = "saving"
  PROVE  LET i == IF tmp # 0 THEN tmp ELSE FreeInode
         IN i \in Inodes /\ i # idx /\ i # 0 /\ Writers(i) = {}
<1>1. Procs = {p}
  BY DEF OneProcess
<1>2. Inodes = 1 .. 3
  <2>1. Cardinality({p}) = 1
    BY FS_Singleton, Zenon
  <2> QED BY <1>1, <2>1 DEF Inodes
<1>3. InUse = {idx, tmp}
  BY <1>1 DEF InUse, Named
<1>4. \A i : Writers(i) = {}
  BY <1>1 DEF Writers
<1>5. idx \in 0 .. 3 /\ tmp \in 0 .. 3 /\ (idx # 0 => idx # tmp)
  BY <1>2 DEF Inv, TypeInv
<1>6. \E i \in Inodes : i \notin InUse
  BY <1>2, <1>3, <1>5
<1>7. FreeInode \in Inodes /\ FreeInode \notin InUse
  BY <1>6 DEF FreeInode
<1> HIDE DEF Inodes
<1> QED BY <1>2, <1>3, <1>4, <1>5, <1>7

\* The temp file of the save is opened and truncated.
LEMMA OpenTmpStep == ASSUME Inv, OneProcess, NEW p \in Procs, OpenTmp(p) PROVE Inv'
<1> DEFINE r == run[p]
<1>1. r.pc = "saving" /\ Merged(r)
  BY InvFacts, RunFacts DEF OpenTmp
<1>2. PICK i : i = IF tmp # 0 THEN tmp ELSE FreeInode
  OBVIOUS
<1>3. i \in Inodes /\ i # idx /\ i # 0 /\ Writers(i) = {}
  BY <1>1, <1>2, OpenedInode
<1>4. PICK k : k = At(r, "writing", i, {})
  OBVIOUS
<1>5. /\ data' = [data EXCEPT ![i] = TornFile] /\ tmp' = i
      /\ UNCHANGED <<disk, clock, idx, left>>
  BY <1>2 DEF OpenTmp
<1>6. run' = [q \in Procs |-> run'[q]] /\ run'[p] = k
  BY <1>2, <1>3, <1>4 DEF OpenTmp, At
<1> HIDE DEF r
<1>7. k.pc = "writing" /\ k.ino = i /\ k.others = {} /\ Merged(k)
  BY <1>1, <1>4, SavingOn
<1>8. Merged(run[p])'
  BY <1>5, <1>6, <1>7, StillSo
<1>9. RunInv(run[p])'
  BY <1>3, <1>5, <1>6, <1>7, <1>8 DEF RunInv
<1>10. \A q \in Procs : RunInv(run[q])'
  BY <1>9 DEF OneProcess
<1>11. TypeInv'
  BY <1>3, <1>5, <1>6 DEF Inv, TypeInv
<1>12. idx' # 0 => idx' # tmp' /\ FileInv(data'[idx'], disk', clock')
  BY <1>3, <1>5 DEF Inv, TypeInv
<1> QED BY <1>10, <1>11, <1>12 DEF Inv

\* The temp file is written.
LEMMA WriteTmpStep == ASSUME Inv, OneProcess, NEW p \in Procs, WriteTmp(p) PROVE Inv'
<1> DEFINE r == run[p]
<1>1. r.pc = "writing" /\ Merged(r) /\ tmp # 0 /\ r.ino = tmp /\ r.others = {}
  BY InvFacts, RunFacts DEF WriteTmp
<1>2. PICK d : d = Saved(r)
  OBVIOUS
<1>3. PICK k : k = At(r, "written", r.ino, r.others)
  OBVIOUS
<1>4. [r EXCEPT !.pc = "written"] = k
  <2>1. DOMAIN r = Fields /\ r = [x \in Fields |-> r[x]]
    BY <1>1 DEF Merged, IsRun
  <2> HIDE DEF r
  <2> QED BY <1>3, <2>1 DEF At, Fields
<1>5. /\ data' = [data EXCEPT ![tmp] = d]
      /\ run' = [run EXCEPT ![p] = k]
      /\ UNCHANGED <<disk, clock, idx, tmp, left>>
  BY <1>1, <1>2, <1>4 DEF WriteTmp
<1> HIDE DEF r
<1>7. k.pc = "written" /\ Merged(k) /\ d = Saved(k)
  BY <1>1, <1>2, <1>3, SavingOn
<1>8. run' = [q \in Procs |-> run'[q]] /\ run'[p] = k
  BY <1>5 DEF Inv, TypeInv
<1>9. Merged(run[p])'
  BY <1>5, <1>7, <1>8, StillSo
<1>10. data'[tmp'] = d
  BY <1>1, <1>5 DEF Inv, TypeInv
<1>11. Saved(run[p])' = d
  BY <1>7, <1>8 DEF Saved
<1>12. RunInv(run[p])'
  BY <1>1, <1>5, <1>7, <1>8, <1>9, <1>10, <1>11 DEF RunInv
<1>13. \A q \in Procs : RunInv(run[q])'
  BY <1>12 DEF OneProcess
<1>14. TypeInv'
  BY <1>5, <1>8 DEF Inv, TypeInv
<1>15. idx' # 0 => idx' # tmp' /\ FileInv(data'[idx'], disk', clock')
  BY <1>5 DEF Inv, TypeInv
<1> QED BY <1>13, <1>14, <1>15 DEF Inv

\* The temp file is renamed over the index.
LEMMA RenameTmpStep == ASSUME Inv, OneProcess, NEW p \in Procs, RenameTmp(p) PROVE Inv'
<1> DEFINE r == run[p]
<1>1. r.pc = "written" /\ Merged(r) /\ tmp # 0 /\ data[tmp] = Saved(r)
  BY InvFacts, RunFacts DEF RenameTmp
<1>2. PICK k : k = At(r, AfterSave(r), 0, {})
  OBVIOUS
<1>3. /\ idx' = tmp /\ tmp' = 0 /\ run' = [run EXCEPT ![p] = k]
      /\ UNCHANGED <<disk, clock, data, left>>
  BY <1>2 DEF RenameTmp, At
<1> HIDE DEF r
<1>4. k.pc = AfterSave(r) /\ Merged(k) /\ Saved(k) = data[tmp]
  BY <1>1, <1>2, SavingOn
<1>5. IsRun(k, clock, left.edits) /\ MergedInv(k, disk, clock) /\ MergedQuiet(k, disk, left.edits)
  BY <1>4 DEF Merged
<1>6. EndsFresh(k)
  BY <1>4, InvFacts, MergedEndsFresh
<1>7. FileInv(data[tmp], disk, clock)
  BY <1>4, <1>5, SavedSound
<1>8. run' = [q \in Procs |-> run'[q]] /\ run'[p] = k
  BY <1>3 DEF Inv, TypeInv
<1>9. EndsFresh(run[p])' /\ IsRun(run[p], clock, left.edits)'
  BY <1>3, <1>5, <1>6, <1>8, StillSo
<1>10. Load' = data[tmp]
  <2>1. data[tmp].kind = "whole"
    BY <1>7 DEF FileInv, Whole
  <2>2. data[tmp] # TornFile
    BY <2>1 DEF TornFile
  <2> QED BY <1>1, <1>3, <2>2 DEF Load
<1>11. Settled(run[p])'
  <2>1. k.at = left.edits => DirtyTUs(Saved(k), k.files, disk) = {}
    BY <1>5, SavedClean
  <2>2. Whole(Saved(k)) /\ FilesOf(Saved(k)) = k.files
    BY SavedFields DEF Whole, FilesOf
  <2>3. DirtyTUs(Saved(k), k.files, disk)' = DirtyTUs(Saved(k), k.files, disk)
    BY <1>3 DEF DirtyTUs, Changed
  <2>4. (run[p].at = left.edits)' => k.at = left.edits
    BY <1>3, <1>8
  <2>5. (run[p].at = left.edits)' =>
          (Whole(Load) /\ FilesOf(Load) = run[p].files /\ DirtyTUs(Load, run[p].files, disk) = {})'
    BY <1>3, <1>4, <1>8, <1>10, <2>1, <2>2, <2>4
  <2> QED BY <2>5 DEF Settled
<1>12. k.pc = "serving" \/ k.pc = "done"
  BY <1>4 DEF AfterSave
<1>13. k.at \in Nat /\ left.edits <= k.at
  BY <1>5 DEF IsRun
<1>14. RunInv(run[p])'
  BY <1>3, <1>8, <1>9, <1>11, <1>12, <1>13 DEF RunInv
<1>15. \A q \in Procs : RunInv(run[q])'
  BY <1>14 DEF OneProcess
<1>16. TypeInv'
  BY <1>3, <1>8 DEF Inv, TypeInv
<1>17. idx' # 0 => idx' # tmp' /\ FileInv(data'[idx'], disk', clock')
  BY <1>1, <1>3, <1>7
<1> QED BY <1>15, <1>16, <1>17 DEF Inv

\* A write that fails leaves the old index.
LEMMA FailToSaveStep == ASSUME Inv, OneProcess, NEW p \in Procs, FailToSave(p) PROVE Inv'
<1> DEFINE r == run[p]
           pc == IF r.verb = "serve" THEN "serving" ELSE "failed"
<1>1. r.pc \in {"saving", "written"} /\ Merged(r)
  BY InvFacts, RunFacts DEF FailToSave
<1>2. PICK k : k = At(r, pc, 0, {})
  OBVIOUS
<1>3. /\ run' = [run EXCEPT ![p] = k] /\ tmp' \in {0, tmp}
      /\ UNCHANGED <<disk, clock, data, idx>>
  BY <1>2 DEF FailToSave, At
<1>4. Spent /\ left'.edits = left.edits
  BY DEF FailToSave, Spent, Inv, TypeInv
<1> HIDE DEF r, pc
<1>5. k.pc = pc /\ Merged(k)
  BY <1>1, <1>2, SavingOn
<1>6. EndsFresh(k) /\ IsRun(k, clock, left.edits)
  BY <1>5, InvFacts, MergedEndsFresh DEF Merged
<1>7. run' = [q \in Procs |-> run'[q]] /\ run'[p] = k
  BY <1>3 DEF Inv, TypeInv
<1>8. EndsFresh(run[p])' /\ IsRun(run[p], clock, left.edits)'
  BY <1>3, <1>4, <1>6, <1>7, StillSo
<1>9. RunInv(run[p])'
  BY <1>5, <1>7, <1>8 DEF RunInv, pc
<1>10. \A q \in Procs : RunInv(run[q])'
  BY <1>9 DEF OneProcess
<1>11. TypeInv'
  BY <1>3, <1>4, <1>7 DEF Inv, TypeInv, Spent
<1>12. idx' # 0 => idx' # tmp' /\ FileInv(data'[idx'], disk', clock')
  BY <1>3 DEF Inv, TypeInv
<1> QED BY <1>10, <1>11, <1>12 DEF Inv

\* A run whose graph has c for t.
PutIn(r, t, c, skipped) == [r EXCEPT !.graph = [r.graph EXCEPT ![t] = c], !.skipped = skipped]

\* A request to parse t again puts in c, which is what a cold bake gives if
\* the parse did not crash.
LEMMA ReindexedRun ==
  ASSUME NEW r, IsRun(r, clock, left.edits), EndsFresh(r), NEW t \in TUs, NEW c, Single(c),
         NEW skipped, r.skipped \ {t} \subseteq skipped,
         t \in skipped \/ c = Contribution(t, r.cfg)
  PROVE  LET k == PutIn(r, t, c, skipped)
         IN k.pc = r.pc /\ IsRun(k, clock, left.edits) /\ EndsFresh(k)
<1> DEFINE k == PutIn(r, t, c, skipped)
<1>1. DOMAIN r = Fields /\ r = [x \in Fields |-> r[x]] /\ OnTUs(r.graph)
  BY DEF IsRun
<1>2. /\ DOMAIN k = Fields /\ k = [x \in Fields |-> k[x]]
      /\ k.pc = r.pc /\ k.verb = r.verb /\ k.cfg = r.cfg /\ k.files = r.files
      /\ k.stamp = r.stamp /\ k.at = r.at
      /\ k.graph = [r.graph EXCEPT ![t] = c] /\ k.skipped = skipped
      /\ k.deps = r.deps /\ k.toBake = r.toBake /\ k.todo = r.todo
      /\ k.fresh = r.fresh /\ k.freshDeps = r.freshDeps
  BY <1>1 DEF Fields, PutIn
<1> HIDE DEF k
<1>3. OnTUs(k.graph) /\ k.graph[t] = c /\ \A u \in TUs \ {t} : k.graph[u] = r.graph[u]
  BY <1>1, <1>2 DEF OnTUs
<1>4. \A u \in TUs : Single(k.graph[u]) /\ Single(k.fresh[u])
  BY <1>2, <1>3 DEF IsRun
<1>5. IsRun(k, clock, left.edits)
  BY <1>2, <1>3, <1>4, Zenon DEF IsRun
<1>6. EndsFresh(k)
  <2> SUFFICES ASSUME k.at = left.edits, NEW u \in TUs,
                      u \notin k.skipped, ~MissedHeader(k.graph[u]),
                      ~(disk[u] = Missing /\ u \notin k.toBake)
               PROVE  SameContent(k.graph[u], IF u \in k.files \/ k.graph[u] # <<>>
                                              THEN Contribution(u, k.cfg) ELSE <<>>)
    BY Zenon DEF EndsFresh
  <2>1. CASE u = t
    <3>1. k.graph[u] = Contribution(u, k.cfg)
      BY <1>2, <1>3, <2>1
    <3>2. SameContent(c, c)
      BY DEF SameContent
    <3>3. ~(u \in k.files \/ k.graph[u] # <<>>) => c = <<>>
      BY <1>3, <2>1
    <3> QED BY <1>3, <2>1, <3>1, <3>2, <3>3
  <2>2. CASE u # t
    <3>1. k.graph[u] = r.graph[u] /\ u \notin r.skipped
      BY <1>2, <1>3, <2>2
    <3>2. /\ r.at = left.edits /\ ~MissedHeader(r.graph[u])
          /\ ~(disk[u] = Missing /\ u \notin r.toBake)
      BY <1>2, <3>1
    <3>3. SameContent(r.graph[u], IF u \in r.files \/ r.graph[u] # <<>>
                                  THEN Contribution(u, r.cfg) ELSE <<>>)
      BY <3>1, <3>2, Zenon DEF EndsFresh
    <3> QED BY <1>2, <3>1, <3>3
  <2> QED BY <2>1, <2>2
<1> QED BY <1>2, <1>5, <1>6 DEF k

\* reindex_tu in a serving process: the TU is parsed again in memory.
LEMMA ReindexStep ==
  ASSUME Inv, OneProcess, NEW p \in Procs, NEW t \in TUs, Reindex(p, t) PROVE Inv'
<1> DEFINE r == run[p]
<1>1. r.pc = "serving" /\ IsRun(r, clock, left.edits) /\ EndsFresh(r)
  BY InvFacts, RunFacts DEF Reindex
<1>2. UNCHANGED <<disk, clock, data, idx, tmp>> /\ Spent /\ left'.edits = left.edits
  <2>1. /\ left.reindex > 0 /\ UNCHANGED <<disk, clock, data, idx, tmp>>
        /\ \/ left' = [left EXCEPT !.reindex = @ - 1]
           \/ /\ left.failures > 0
              /\ left' = [left EXCEPT !.reindex = @ - 1, !.failures = @ - 1]
    BY Zenon DEF Reindex
  <2>2. left \in [edits : Nat, runs : Nat, kills : Nat, failures : Nat, reindex : Nat]
    BY DEF Inv, TypeInv
  <2>3. CASE left' = [left EXCEPT !.reindex = @ - 1]
    BY <2>1, <2>2, <2>3 DEF Spent
  <2>4. CASE left.failures > 0 /\ left' = [left EXCEPT !.reindex = @ - 1, !.failures = @ - 1]
    <3> DEFINE half == [left EXCEPT !.reindex = @ - 1]
    <3>1. half \in [edits : Nat, runs : Nat, kills : Nat, failures : Nat, reindex : Nat]
          /\ half.edits = left.edits /\ half.failures > 0
      BY <2>1, <2>2, <2>4
    <3>2. left' = [half EXCEPT !.failures = @ - 1]
      BY <2>2, <2>4
    <3> HIDE DEF half
    <3> QED BY <2>1, <3>1, <3>2 DEF Spent
  <2> QED BY <2>1, <2>3, <2>4
<1>3. \E c, skipped :
        /\ run' = [run EXCEPT ![p] = PutIn(r, t, c, skipped)]
        /\ Single(c) /\ r.skipped \ {t} \subseteq skipped
        /\ t \in skipped \/ c = Contribution(t, r.cfg)
  <2>1. CASE run' = [run EXCEPT ![p].graph[t] = Contribution(t, run[p].cfg),
                                ![p].skipped = @ \ {t}]
    <3>1. Single(Contribution(t, r.cfg))
      BY InvFacts, ParseSound
    <3> QED BY <2>1, <3>1 DEF PutIn
  <2>2. CASE \E c \in LeftByCrash(t, run[p].cfg) :
               run' = [run EXCEPT ![p].graph[t] = c, ![p].skipped = @ \cup {t}]
    <3>1. PICK c \in LeftByCrash(t, run[p].cfg) :
            run' = [run EXCEPT ![p].graph[t] = c, ![p].skipped = @ \cup {t}]
      BY <2>2
    <3>2. Single(c)
      BY OneIsSingle DEF LeftByCrash
    <3>3. t \in r.skipped \cup {t} /\ r.skipped \ {t} \subseteq r.skipped \cup {t}
      OBVIOUS
    <3> QED BY <3>1, <3>2, <3>3 DEF PutIn
  <2> QED BY <2>1, <2>2 DEF Reindex
<1>4. PICK c, skipped :
        /\ run' = [run EXCEPT ![p] = PutIn(r, t, c, skipped)]
        /\ Single(c) /\ r.skipped \ {t} \subseteq skipped
        /\ t \in skipped \/ c = Contribution(t, r.cfg)
  BY <1>3
<1>5. PICK k : k = PutIn(r, t, c, skipped)
  OBVIOUS
<1>6. run' = [run EXCEPT ![p] = k] /\ run'[p] = k
  BY <1>4, <1>5 DEF Inv, TypeInv
<1> HIDE DEF r
<1>7. k.pc = "serving" /\ IsRun(k, clock, left.edits) /\ EndsFresh(k)
  BY <1>1, <1>4, <1>5, ReindexedRun
<1>8. EndsFresh(run[p])' /\ IsRun(run[p], clock, left.edits)'
  BY <1>2, <1>6, <1>7, StillSo
<1>9. RunInv(run[p])'
  BY <1>6, <1>7, <1>8 DEF RunInv
<1> QED BY <1>2, <1>6, <1>9, FilesKept

\* A process ends, or is killed at any step.
LEMMA ExitStep == ASSUME Inv, OneProcess, NEW p \in Procs, Exit(p) \/ Kill(p) PROVE Inv'
<1>1. run' = [run EXCEPT ![p] = Off] /\ UNCHANGED <<disk, clock, data, idx, tmp>>
  BY DEF Exit, Kill, Becomes
<1>2. Spent
  BY DEF Exit, Kill, Spent, Inv, TypeInv
<1>3. run'[p] = Off
  BY <1>1 DEF Inv, TypeInv
<1>4. RunInv(run[p])'
  BY <1>3 DEF RunInv
<1> QED BY <1>1, <1>2, <1>4, FilesKept
-----------------------------------------------------------------------------
(* The disk.                                                                 *)

\* What a change of the disk is.
Moved ==
  /\ DiskInv(disk', clock') /\ Later(disk, clock, disk') /\ clock <= clock'
  /\ UNCHANGED <<data, idx, tmp, run>>
  /\ Spent /\ left'.edits < left.edits

\* A file on disk keeps its sound entries.
LEMMA FileMoved ==
  ASSUME NEW now, NEW clk, NEW then, NEW clk2, DiskInv(now, clk), DiskInv(then, clk2),
         Later(now, clk, then), clk <= clk2, NEW f, FileInv(f, now, clk)
  PROVE  FileInv(f, then, clk2)
<1>1. /\ f.files \subseteq TUs
      /\ \A t \in f.files : f.stamp[t] \in Nat /\ f.stamp[t] <= clk
      /\ clk \in Nat /\ clk2 \in Nat /\ then \in [TUs \cup Headers -> Nat]
  BY DEF FileInv, Stamped, DiskInv
<1>2. Stamped(f.stamp, f.files, clk2)
  BY <1>1 DEF FileInv, Stamped
<1>3. ASSUME NEW t \in f.files \ f.skipped
      PROVE  Sound(f.graph[t], DependenciesOf(f)[t], f.stamp[t], t, f.cfg, then, clk2)
  <2>1. Sound(f.graph[t], DependenciesOf(f)[t], f.stamp[t], t, f.cfg, now, clk)
    BY DEF FileInv
  <2>2. t \in TUs /\ f.stamp[t] \in Nat /\ f.stamp[t] <= clk
    BY <1>1
  <2> DEFINE g == f.graph[t]
             d == DependenciesOf(f)[t]
             s == f.stamp[t]
             cfg == f.cfg
  <2> HIDE DEF g, d, s, cfg
  <2>3. Sound(g, d, s, t, cfg, now, clk) /\ s \in Nat /\ s <= clk
    BY <2>1, <2>2 DEF g, d, s, cfg
  <2>4. Sound(g, d, s, t, cfg, then, clk2)
    BY <1>1, <2>2, <2>3, SoundStable
  <2> QED BY <2>4 DEF g, d, s, cfg
<1> QED BY <1>2, <1>3 DEF FileInv

\* A run keeps its sound entries, and is no longer quiet.
LEMMA RunMoved ==
  ASSUME NEW now, NEW clk, NEW then, NEW clk2, DiskInv(now, clk), DiskInv(then, clk2),
         Later(now, clk, then), clk <= clk2,
         NEW e \in Nat, NEW e2 \in Nat, e2 < e, NEW r, IsRun(r, clk, e)
  PROVE  /\ IsRun(r, clk2, e2) /\ r.at # e2
         /\ BakingInv(r, now, clk) => BakingInv(r, then, clk2)
         /\ MergedInv(r, now, clk) => MergedInv(r, then, clk2)
<1>1. /\ r.files \subseteq TUs /\ r.toBake \subseteq r.files
      /\ \A t \in r.files : r.stamp[t] \in Nat /\ r.stamp[t] <= clk
      /\ clk \in Nat /\ clk2 \in Nat /\ then \in [TUs \cup Headers -> Nat]
      /\ r.at \in Nat /\ e <= r.at
  BY DEF IsRun, Stamped, DiskInv
<1>2. Stamped(r.stamp, r.files, clk2)
  BY <1>1 DEF IsRun, Stamped
<1>3. r.at # e2 /\ e2 <= r.at
  BY <1>1
<1>4. IsRun(r, clk2, e2)
  BY <1>2, <1>3, Zenon DEF IsRun
<1>5. ASSUME NEW t \in r.files, NEW g, NEW d, Sound(g, d, r.stamp[t], t, r.cfg, now, clk)
      PROVE  Sound(g, d, r.stamp[t], t, r.cfg, then, clk2)
  <2>1. t \in TUs /\ r.stamp[t] \in Nat /\ r.stamp[t] <= clk
    BY <1>1
  <2> DEFINE s == r.stamp[t]
             cfg == r.cfg
  <2> HIDE DEF s, cfg
  <2>2. Sound(g, d, s, t, cfg, now, clk) /\ s \in Nat /\ s <= clk
    BY <1>5, <2>1 DEF s, cfg
  <2>3. Sound(g, d, s, t, cfg, then, clk2)
    BY <1>1, <2>1, <2>2, SoundStable
  <2> QED BY <2>3 DEF s, cfg
<1>6. BakingInv(r, now, clk) => BakingInv(r, then, clk2)
  BY <1>1, <1>5 DEF BakingInv
<1>7. MergedInv(r, now, clk) => MergedInv(r, then, clk2)
  BY <1>5 DEF MergedInv
<1> QED BY <1>3, <1>4, <1>6, <1>7

\* A run is as it should be after a change of the disk.
LEMMA RunInvMoved ==
  ASSUME DiskInv(disk, clock), left.edits \in Nat, left'.edits \in Nat, Moved,
         NEW r, RunInv(r)
  PROVE  RunInv(r)'
<1>1. Load' = Load /\ tmp' = tmp /\ data' = data /\ left'.edits < left.edits
  BY DEF Moved, Load
<1>2. ASSUME IsRun(r, clock, left.edits)
      PROVE  /\ IsRun(r, clock', left'.edits) /\ r.at # left'.edits
             /\ BakingInv(r, disk, clock) => BakingInv(r, disk', clock')
             /\ MergedInv(r, disk, clock) => MergedInv(r, disk', clock')
  BY <1>2, RunMoved DEF Moved
<1>3. Baked(r) => Baked(r)'
  BY <1>2 DEF Baked, BakingQuiet
<1>4. Merged(r) => Merged(r)'
  BY <1>2 DEF Merged, MergedQuiet
<1>5. r.at \in Nat /\ left.edits <= r.at =>
        /\ r.at # left'.edits /\ left'.edits <= r.at
        /\ EndsFresh(r)' /\ Settled(r)'
  BY <1>1 DEF EndsFresh, Settled
<1>6. IsRun(r, clock, left.edits) => IsRun(r, clock', left'.edits) /\ EndsFresh(r)'
  BY <1>2, <1>5 DEF IsRun
<1>7. LaunchedInv(r) => LaunchedInv(r)'
  BY <1>1 DEF LaunchedInv
<1>8. CASE r = Off \/ r.pc = "failed"
  BY <1>8 DEF RunInv, Off
<1>9. CASE LaunchedInv(r)
  BY <1>7, <1>9 DEF RunInv
<1>10. CASE r.pc = "baking" /\ Baked(r)
  BY <1>3, <1>10 DEF RunInv
<1>11. CASE r.pc \in {"saving", "writing", "written"} /\ Merged(r)
  BY <1>1, <1>4, <1>11, RunFacts DEF RunInv
<1>12. CASE r.pc = "serving" /\ IsRun(r, clock, left.edits)
  BY <1>6, <1>12 DEF RunInv
<1>13. CASE r.pc = "done" /\ r.at \in Nat /\ left.edits <= r.at
  BY <1>5, <1>13 DEF RunInv
<1> QED BY <1>8, <1>9, <1>10, <1>11, <1>12, <1>13 DEF RunInv

\* Files or the clock move: what was sound is sound.
LEMMA MoveStep == ASSUME Inv, Moved PROVE Inv'
<1>1. DiskInv(disk, clock) /\ left.edits \in Nat /\ left'.edits \in Nat
  BY DEF Inv, TypeInv, Moved, Spent
<1>2. TypeInv'
  BY DEF Inv, TypeInv, Moved, Spent
<1>3. idx' # 0 => idx' # tmp' /\ FileInv(data'[idx'], disk', clock')
  BY <1>1, FileMoved DEF Inv, Moved
<1>4. ASSUME NEW p \in Procs
      PROVE  RunInv(run[p])'
  <2>1. PICK r : r = run[p]
    OBVIOUS
  <2>2. RunInv(r)
    BY <2>1 DEF Inv
  <2>3. RunInv(r)'
    BY <1>1, <2>2, RunInvMoved
  <2> QED BY <2>1, <2>3 DEF Moved
<1> QED BY <1>2, <1>3, <1>4 DEF Inv

\* A source or a header is edited, created or deleted.
LEMMA DiskStep ==
  ASSUME Inv, NEW f \in TUs \cup Headers, Edit(f) \/ Delete(f)
  PROVE  Inv'
<1>1. DiskInv(disk, clock) /\ left.edits \in Nat
  BY DEF Inv, TypeInv
<1>2. UNCHANGED <<data, idx, tmp, run>> /\ Spent /\ left'.edits < left.edits
  BY DEF Edit, Delete, Spent, Inv, TypeInv
<1>3. DiskInv(disk', clock') /\ Later(disk, clock, disk') /\ clock <= clock'
  <2>1. CASE Edit(f)
    <3>1. clock \in Nat /\ clock' = clock + 1 /\ disk' = [disk EXCEPT ![f] = clock + 1]
      BY <1>1, <2>1 DEF Edit, DiskInv
    <3>2. \A g \in TUs \cup Headers : disk'[g] = IF g = f THEN clock + 1 ELSE disk[g]
      BY <1>1, <3>1 DEF DiskInv
    <3>3. DiskInv(disk', clock') /\ clock <= clock'
      <4>1. disk' \in [TUs \cup Headers -> Nat]
        BY <1>1, <3>1 DEF DiskInv
      <4>2. clock' \in Nat /\ clock <= clock' /\ clock' >= PerSecond /\ PerSecond \in Nat
        BY <1>1, <3>1, SecondAssumption DEF DiskInv
      <4>3. ASSUME NEW g \in TUs \cup Headers, disk'[g] # Missing
            PROVE  PerSecond <= disk'[g] /\ disk'[g] <= clock'
        <5>1. CASE g = f
          BY <3>1, <3>2, <4>2, <5>1
        <5>2. CASE g # f
          <6>1. disk[g] \in Nat /\ PerSecond <= disk[g] /\ disk[g] <= clock
            BY <1>1, <3>2, <4>3, <5>2 DEF DiskInv
          <6> QED BY <3>1, <3>2, <5>2, <6>1
        <5> QED BY <5>1, <5>2
      <4> QED BY <4>1, <4>2, <4>3 DEF DiskInv
    <3>4. Later(disk, clock, disk')
      BY <3>1, <3>2 DEF Later
    <3> QED BY <3>3, <3>4
  <2>2. CASE Delete(f)
    <3>1. clock' = clock /\ disk' = [disk EXCEPT ![f] = Missing]
      BY <2>2 DEF Delete
    <3>2. \A g \in TUs \cup Headers : disk'[g] = IF g = f THEN Missing ELSE disk[g]
      BY <1>1, <3>1 DEF DiskInv
    <3> QED BY <1>1, <3>1, <3>2 DEF DiskInv, Later, Missing
  <2> QED BY <2>1, <2>2
<1> QED BY <1>2, <1>3, MoveStep DEF Moved

-----------------------------------------------------------------------------
(* Theorems.                                                                 *)

\* At first there is no index and no process.
LEMMA InitInv == Init => Inv
<1> SUFFICES ASSUME Init PROVE Inv
  OBVIOUS
<1>1. DiskInv(disk, clock)
  <2>1. clock = PerSecond /\ disk = [f \in TUs \cup Headers |-> IF f \in InitialFiles THEN clock
                                                               ELSE Missing]
    BY DEF Init
  <2>2. \A f \in TUs \cup Headers : disk[f] \in {clock, Missing}
    BY <2>1
  <2> QED BY <2>1, <2>2, SecondAssumption DEF DiskInv, Missing
<1>2. TypeInv
  BY <1>1, BoundsAssumption DEF TypeInv, Init
<1>3. \A p \in Procs : RunInv(run[p])
  BY DEF Init, RunInv
<1> QED BY <1>2, <1>3 DEF Inv, Init

\* Every step keeps the invariant.
LEMMA InvStep == ASSUME OneProcess, Inv, [Next]_vars PROVE Inv'
<1>1. CASE \E p \in Procs : Process(p)
  <2>1. PICK p \in Procs : Process(p)
    BY <1>1
  <2>2. CASE \E t \in TUs : Parse(p, t) \/ CrashedParse(p, t) \/ Reindex(p, t)
    BY <2>2, ParseStep, CrashedParseStep, ReindexStep
  <2>3. CASE Launch(p) \/ DecideRebuild(p) \/ DecideUnchanged(p) \/ DecideRefresh(p)
    BY <2>3, LaunchStep, DecideRebuildStep, DecideUnchangedStep, DecideRefreshStep
  <2>4. CASE AbortedBake(p) \/ Absorb(p)
    BY <2>4, AbortedBakeStep, AbsorbStep
  <2>5. CASE OpenTmp(p) \/ WriteTmp(p) \/ RenameTmp(p) \/ FailToSave(p)
    BY <2>5, OpenTmpStep, WriteTmpStep, RenameTmpStep, FailToSaveStep
  <2>6. CASE Exit(p) \/ Kill(p)
    BY <2>6, ExitStep
  <2> QED BY <2>1, <2>2, <2>3, <2>4, <2>5, <2>6 DEF Process
<1>2. CASE \E f \in TUs \cup Headers : Edit(f) \/ Delete(f)
  BY <1>2, DiskStep
<1>3. CASE UNCHANGED vars
  <2>1. \A p \in Procs : RunInv(run[p])'
    <3>1. ASSUME NEW r, RunInv(r)
          PROVE  RunInv(r)'
      <4>1. Load' = Load /\ UNCHANGED <<disk, clock, data, idx, tmp, left>>
        BY <1>3 DEF vars, Load
      <4>2. /\ Baked(r) => Baked(r)'
            /\ Merged(r) => Merged(r)'
            /\ IsRun(r, clock, left.edits) => IsRun(r, clock, left.edits)'
            /\ EndsFresh(r) => EndsFresh(r)'
        BY <4>1, StillSo
      <4>3. (Settled(r) => Settled(r)') /\ (LaunchedInv(r) => LaunchedInv(r)')
        BY <4>1 DEF Settled, LaunchedInv, DirtyTUs, Changed
      <4> QED BY <3>1, <4>1, <4>2, <4>3 DEF RunInv
    <3>2. run' = run
      BY <1>3 DEF vars
    <3> SUFFICES ASSUME NEW p \in Procs PROVE RunInv(run[p])'
      OBVIOUS
    <3>3. PICK r : r = run[p]
      OBVIOUS
    <3>4. RunInv(r)'
      BY <3>1, <3>3 DEF Inv
    <3> QED BY <3>2, <3>3, <3>4
  <2> QED BY <1>3, <2>1 DEF Inv, TypeInv, vars
<1> QED BY <1>1, <1>2, <1>3 DEF Next

\* The invariant holds of one process at a time.
THEOREM InvHolds == OneProcess => (Spec => []Inv)
<1> SUFFICES ASSUME OneProcess PROVE Spec => []Inv
  OBVIOUS
<1> QED BY InitInv, InvStep, PTL DEF Spec

\* "Write to a temp file and rename so a crash mid-write never leaves a torn
\* snapshot" (Snapshot.cpp:502-503), at whatever step a run is killed.
THEOREM NeverTornCorrect == OneProcess => (Spec => []NeverTorn)
<1>1. Inv => NeverTorn
  BY DEF Inv, FileInv, NeverTorn
<1> QED BY <1>1, InvHolds, PTL

\* The index on file has no entry that a warm start would take over although
\* it is not what a cold bake gives (Snapshot.cpp:1071-1108, main.cpp:1148-1170).
THEOREM CleanCorrect == OneProcess => (Spec => []CleanMeansFresh)
<1>1. ASSUME Inv
      PROVE  CleanMeansFresh
  <2> DEFINE f == data[idx]
  <2> SUFFICES ASSUME idx # 0, Whole(f), NEW t \in TUs
               PROVE  IF t \notin f.files THEN f.graph[t] = <<>>
                      ELSE t \in DirtyTUs(f, f.files, disk) \cup f.skipped
                           \/ f.stamp[t] = Missing
                           \/ MissedHeader(f.graph[t])
                           \/ SameContent(f.graph[t], Contribution(t, f.cfg))
    BY Zenon DEF CleanMeansFresh
  <2>1. FileInv(f, disk, clock) /\ DiskInv(disk, clock)
    BY <1>1 DEF Inv, TypeInv
  <2> HIDE DEF f
  <2>2. CASE t \notin f.files
    BY <2>1, <2>2 DEF FileInv
  <2>3. CASE t \in f.files
    <3> SUFFICES ASSUME t \notin DirtyTUs(f, f.files, disk), t \notin f.skipped,
                        f.stamp[t] # Missing, ~MissedHeader(f.graph[t])
                 PROVE  SameContent(f.graph[t], Contribution(t, f.cfg))
      BY <2>3
    <3>1. ~Changed(f, t, disk)
      BY <2>3 DEF DirtyTUs, FilesOf
    <3>2. disk[t] # Missing
      BY <3>1 DEF Changed
    <3> QED BY <2>1, <2>3, <3>1, <3>2, FileEntryFresh
  <2> QED BY <2>2, <2>3
<1> QED BY <1>1, InvHolds, PTL

\* What a run that ends with nothing edited has in memory, and `index` has
\* saved, is what a cold bake of its selection gives (main.cpp:1091-1215).
THEOREM RunEndsCorrect == OneProcess => (Spec => []RunEndsFresh)
<1>1. ASSUME Inv
      PROVE  RunEndsFresh
  <2>1. ASSUME NEW p \in Procs, run[p].pc \in {"serving", "done"}
        PROVE  EndsFresh(run[p])
    <3>1. RunInv(run[p])
      BY <1>1 DEF Inv
    <3> QED BY <2>1, <3>1 DEF RunInv, Off, LaunchedInv
  <2> QED BY <2>1, Zenon DEF RunEndsFresh, EndsFresh
<1> QED BY <1>1, InvHolds, PTL

\* After an `index` run that ends with nothing edited, another one has nothing
\* to do (main.cpp:1146-1158).
THEOREM SettlesCorrect == OneProcess => (Spec => []SettlesDown)
<1>1. ASSUME Inv
      PROVE  SettlesDown
  <2>1. ASSUME NEW p \in Procs, run[p].pc = "done"
        PROVE  Settled(run[p])
    <3>1. RunInv(run[p])
      BY <1>1 DEF Inv
    <3> QED BY <2>1, <3>1 DEF RunInv, Off, LaunchedInv
  <2> QED BY <2>1, Zenon DEF SettlesDown, Settled
<1> QED BY <1>1, InvHolds, PTL
=============================================================================
