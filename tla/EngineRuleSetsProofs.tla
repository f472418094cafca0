------------------------ MODULE EngineRuleSetsProofs ------------------------
(***************************************************************************)
(* Theorems about the rule sets of the engine, for every base list, every  *)
(* published list and any number of remote sets, versions and starts.      *)
(*                                                                         *)
(* The shell's thread and the engine meet in the pack files only, so the   *)
(* files have an invariant of their own (PackInv) that every step of the   *)
(* engine leaves alone; the engine's is about the stages (StageInv) and,   *)
(* for the remote sets, about the tag held, the request under way and the  *)
(* copy in the cache (TagInv).  NoChangeLost and TornIsAhead say what is   *)
(* still to come when a list is not in force or a file is torn.            *)
(***************************************************************************)
EXTENDS EngineRuleSets, TLAPS

\* The bounds one by one.
LEMMA Bounds ==
    /\ MaxLaunches \in Nat /\ MaxLaunches # 0
    /\ MaxConnects \in Nat /\ MaxUpdates \in Nat
    /\ MaxVersions \in Nat /\ 1 \in Versions /\ None \notin Versions
  BY PackBoundAssumption, EngineBoundsAssumption DEF Versions, None

-----------------------------------------------------------------------------
(* The pack files.                                                         *)

\* A file that can be parsed holds the built-in entries, those in .ua apart.
PackInv ==
    /\ PackTypeOK
    /\ \A p \in Packs : disk[p].state = "whole" => Base \ Ua \subseteq disk[p].list

\* Whoever takes the step, the files change by the thread or the shell alone.
LEMMA PackSteps ==
    [Next]_vars => Launch \/ Update \/ ShellEnds \/ UNCHANGED packVars
  <1>. SUFFICES ASSUME [Next]_vars, ~UNCHANGED packVars
                PROVE  Launch \/ Update \/ ShellEnds
    OBVIOUS
  <1>1. ~Created /\ ~StartedSets /\ ~PostStart /\ ~Cleanup
    BY Zenon DEF Created, StartedSets, PostStart, Cleanup
  <1>2. ~Connect /\ ~EngineExits
    BY Zenon DEF Connect, EngineExits
  <1>3. \A p \in Packs : ~LoadPack(p) /\ ~StartWatcher(p) /\ ~Reload(p)
    BY Zenon DEF LoadPack, StartWatcher, Reload
  <1>4. \A r \in Remotes : ~Restore(r) /\ ~Request(r) /\ ~Answer(r)
    BY Zenon DEF Restore, Request, Answer
  <1>5. \A r \in Remotes : ~FetchFailed(r) /\ ~NotModified(r) /\ ~Fetched(r)
    BY Zenon DEF FetchFailed, NotModified, Fetched
  <1>6. \A r \in Remotes, v \in Versions : ~Publish(r, v)
    BY Zenon DEF Publish
  <1>7. UNCHANGED vars => UNCHANGED packVars
    BY DEF vars
  <1>. QED
    BY <1>1, <1>2, <1>3, <1>4, <1>5, <1>6, <1>7, Zenon
       DEF Next, Start, Fetch, UpdatePacks, ShellGone

\* The thread and the shell keep the files' invariant.
LEMMA PackStep ==
    ASSUME PackInv, Launch \/ Update \/ ShellEnds \/ UNCHANGED packVars
    PROVE  PackInv'
  <1>1. CASE Launch
    BY <1>1, Bounds DEF PackInv, PackTypeOK, Launch, At, Off, Done
  <1>2. CASE ShellEnds
    BY <1>2 DEF PackInv, PackTypeOK, ShellEnds
  <1>3. CASE UNCHANGED packVars
    BY <1>3 DEF PackInv, PackTypeOK, packVars
  <1>4. ASSUME Update, at.step \in {"download", "open", "write"}
        PROVE  at.pack \in {1, 2} /\ Pack \in Packs /\ NextPack \in {Done} \cup [step : {"download", "open", "write"}, pack : {1, 2}]
    BY <1>4 DEF PackInv, PackTypeOK, Off, Done, Pack, Order, Packs, NextPack, At
  <1>5. CASE Download
    BY <1>4, <1>5 DEF PackInv, PackTypeOK, Download, At, Update
  <1>6. CASE OpenFile
    <2>1. CASE UNCHANGED disk
      BY <1>4, <1>6, <2>1 DEF PackInv, PackTypeOK, OpenFile, At, Update
    <2>2. CASE disk' = [disk EXCEPT ![Pack] = Torn] /\ at' = At("write", at.pack)
               /\ UNCHANGED failed
      BY <1>4, <1>6, <2>2 DEF PackInv, PackTypeOK, OpenFile, At, Update, Torn
    <2>. QED  BY <1>6, <2>1, <2>2 DEF OpenFile
  <1>7. CASE WriteFile
    <2>1. CASE UNCHANGED disk
      BY <1>4, <1>7, <2>1 DEF PackInv, PackTypeOK, WriteFile, At, Update
    <2>2. CASE disk' = [disk EXCEPT ![Pack] = Whole(Merged)] /\ UNCHANGED failed
      <3>1. Merged \in SUBSET ((Base \cup Remote) \ Ua) /\ Base \ Ua \subseteq Merged
        BY DEF Merged, PackInv, PackTypeOK
      <3>. QED
        BY <1>4, <1>7, <2>2, <3>1 DEF PackInv, PackTypeOK, WriteFile, Update, Whole
    <2>. QED  BY <1>7, <2>1, <2>2 DEF WriteFile
  <1>. QED  BY <1>1, <1>2, <1>3, <1>5, <1>6, <1>7 DEF Update

\* What a file can hold: the two cases the engine tells apart.
LEMMA PackLists ==
    ASSUME PackInv, NEW p \in Packs, disk[p].state = "whole"
    PROVE  /\ disk[p].list \in SUBSET ((Base \cup Remote) \ Ua)
           /\ Base \ Ua \subseteq disk[p].list
  BY DEF PackInv, PackTypeOK, Absent, Torn, Whole

-----------------------------------------------------------------------------
(* Types of the engine's state.                                            *)

VersionsOrNone == Versions \cup {None}

Requests ==
    {Idle} \cup [kind : {"asked"}, etag : VersionsOrNone]
    \cup [kind : {"content", "notModified", "garbage", "error"},
          version : VersionsOrNone, etag : VersionsOrNone]

LocalTypes ==
    /\ named \subseteq Packs /\ loaded \subseteq Packs /\ watching \subseteq Packs
    /\ pending \subseteq Packs /\ missed \subseteq Packs
    /\ rules \in [Packs -> SUBSET ((Base \cup Remote) \ Ua)]

RemoteTypes ==
    /\ content \in [Remotes -> VersionsOrNone]
    /\ lastEtag \in [Remotes -> VersionsOrNone]
    /\ answered \in [Remotes -> VersionsOrNone]
    /\ fetching \in [Remotes -> Requests]
    /\ saved \in [Remotes -> [version : VersionsOrNone, etag : VersionsOrNone]]
    /\ untagged \subseteq Remotes
    /\ copy \in [Remotes -> {"last", "older", "restored"}]

StageTypes ==
    /\ engine \in {"off", "new", "start", "postStart", "started", "running"}
    /\ connects \in 0..MaxConnects /\ updates \in 0..MaxUpdates
    /\ upstream \in [Remotes -> Versions]
    /\ referenced \subseteq Used /\ caching \in BOOLEAN

EngineTypes == LocalTypes /\ RemoteTypes /\ StageTypes

\* An engine that is gone leaves well-typed state.
LEMMA GoneTypes ==
    ASSUME EngineTypes, EngineGone
    PROVE  EngineTypes'
  BY Bounds DEF EngineTypes, LocalTypes, RemoteTypes, StageTypes, EngineGone,
                VersionsOrNone, Requests, outside, history

\* Every step keeps the types.
LEMMA TypesStep ==
    ASSUME EngineTypes, PackInv, [Next]_vars
    PROVE  EngineTypes'
  <1>. USE DEF EngineTypes
  <1>1. CASE UNCHANGED engineVars
    BY <1>1 DEF LocalTypes, RemoteTypes, StageTypes, engineVars, localVars,
                remoteVars, history, outside
  <1>2. CASE UpdatePacks
    BY <1>2 DEF LocalTypes, RemoteTypes, StageTypes, UpdatePacks, Written,
                remoteVars, history, outside
  <1>3. CASE ShellGone \/ EngineExits
    BY <1>3, GoneTypes DEF ShellGone, EngineExits
  <1>4. CASE Connect
    BY <1>4, Bounds DEF LocalTypes, RemoteTypes, StageTypes, Connect, remoteVars,
                       history, outside
  <1>5. CASE Created \/ StartedSets \/ PostStart
    BY <1>5 DEF LocalTypes, RemoteTypes, StageTypes, Created, StartedSets, PostStart,
                localVars, remoteVars, history, outside
  <1>6. CASE Cleanup
    <2>1. LocalTypes'
      BY <1>6 DEF LocalTypes, Cleanup
    <2>2. RemoteTypes'
      BY <1>6 DEF RemoteTypes, Cleanup, VersionsOrNone, outside, history
    <2>3. StageTypes'
      BY <1>6 DEF StageTypes, Cleanup, outside
    <2>. QED  BY <2>1, <2>2, <2>3
  <1>7. ASSUME NEW p \in Packs, LoadPack(p) PROVE EngineTypes'
    <2>1. CASE disk[p].state = "whole"
      BY <1>7, <2>1, PackLists
         DEF LocalTypes, RemoteTypes, StageTypes, LoadPack, remoteVars, history, outside
    <2>2. CASE disk[p].state # "whole"
      <3>1. EngineGone
        BY <1>7, <2>2 DEF LoadPack
      <3>. QED  BY <3>1, GoneTypes
    <2>. QED  BY <2>1, <2>2
  <1>8. ASSUME NEW p \in Packs, StartWatcher(p) PROVE EngineTypes'
    BY <1>8 DEF LocalTypes, RemoteTypes, StageTypes, StartWatcher, remoteVars,
                history, outside
  <1>9. ASSUME NEW p \in Packs, Reload(p) PROVE EngineTypes'
    BY <1>9, PackLists
       DEF LocalTypes, RemoteTypes, StageTypes, Reload, remoteVars, history, outside
  <1>10. ASSUME NEW r \in Remotes, Restore(r) PROVE EngineTypes'
    BY <1>10 DEF LocalTypes, RemoteTypes, StageTypes, Restore, localVars, outside
  <1>11. ASSUME NEW r \in Remotes, Request(r) PROVE EngineTypes'
    <2>1. RemoteTypes'
      BY <1>11 DEF RemoteTypes, Request, Requests, outside, history
    <2>2. updates' \in 0..MaxUpdates
      BY <1>11, Bounds DEF Request, StageTypes
    <2>. QED
      BY <1>11, <2>1, <2>2 DEF LocalTypes, StageTypes, Request, localVars, outside
  <1>12. ASSUME NEW r \in Remotes, Answer(r) PROVE EngineTypes'
    <2>1. PICK reply \in Requests : fetching' = [fetching EXCEPT ![r] = reply]
      BY <1>12 DEF Answer, Reply, Requests, VersionsOrNone, StageTypes
    <2>2. RemoteTypes'
      BY <1>12, <2>1 DEF RemoteTypes, Answer, outside, history
    <2>. QED
      BY <1>12, <2>2 DEF LocalTypes, StageTypes, Answer, localVars, outside
  <1>13. ASSUME NEW r \in Remotes, FetchFailed(r) PROVE EngineTypes'
    <2>1. CASE engine = "start"
      <3>1. EngineGone
        BY <1>13, <2>1 DEF FetchFailed
      <3>. QED  BY <3>1, GoneTypes
    <2>2. CASE engine # "start"
      BY <1>13, <2>2 DEF LocalTypes, RemoteTypes, StageTypes, FetchFailed,
                         localVars, outside, history, Requests
    <2>. QED  BY <2>1, <2>2
  <1>14. ASSUME NEW r \in Remotes, NotModified(r) PROVE EngineTypes'
    <2>1. fetching[r].version \in VersionsOrNone
      BY <1>14 DEF NotModified, RemoteTypes, Requests, Idle
    <2>2. RemoteTypes'
      BY <1>14, <2>1 DEF RemoteTypes, NotModified, Requests, outside
    <2>. QED
      BY <1>14, <2>2 DEF LocalTypes, StageTypes, NotModified, localVars, outside
  <1>15. ASSUME NEW r \in Remotes, Fetched(r) PROVE EngineTypes'
    <2>1. fetching[r].version \in VersionsOrNone /\ fetching[r].etag \in VersionsOrNone
      BY <1>15 DEF Fetched, RemoteTypes, Requests, Idle
    <2>2. RemoteTypes'
      BY <1>15, <2>1 DEF RemoteTypes, Fetched, Requests, VersionsOrNone
    <2>. QED
      BY <1>15, <2>2 DEF LocalTypes, StageTypes, Fetched, localVars
  <1>16. ASSUME NEW r \in Remotes, NEW v \in Versions, Publish(r, v)
         PROVE  EngineTypes'
    BY <1>16 DEF LocalTypes, RemoteTypes, StageTypes, Publish, localVars, remoteVars,
                 history
  <1>. QED
    BY <1>1, <1>2, <1>3, <1>4, <1>5, <1>6, <1>7, <1>8, <1>9, <1>10, <1>11, <1>12,
       <1>13, <1>14, <1>15, <1>16, Zenon
       DEF Next, Start, Fetch, vars

-----------------------------------------------------------------------------
(* The stages, and what a local set holds in each.                         *)

\* After New every set of the configuration has been read; from PostStart on
\* the sets some rule names are referenced; a set that has been read holds the
\* built-in entries until the clean-up, and after it if it is referenced.
StageInv ==
    /\ loaded \subseteq named /\ (engine = "off" => loaded = {})
    /\ engine \notin {"off", "new"} => loaded = named
    /\ Serving => referenced = Used
    /\ \A p \in loaded :
          (engine = "running" => p \in referenced) => Base \ Ua \subseteq rules[p]

\* A step that leaves the stage, the lists and the references alone.
LEMMA StageUnchanged ==
    ASSUME StageInv, UNCHANGED <<engine, named, loaded, rules, referenced>>
    PROVE  StageInv'
  BY DEF StageInv, Serving

\* Every step keeps the order of the stages.
LEMMA StageStep ==
    ASSUME EngineTypes, PackInv, StageInv, [Next]_vars
    PROVE  StageInv'
  <1>1. CASE UNCHANGED engineVars \/ UpdatePacks
    BY <1>1, StageUnchanged DEF engineVars, localVars, UpdatePacks
  <1>2. ASSUME EngineGone PROVE StageInv'
    BY <1>2 DEF StageInv, EngineGone, Serving
  <1>3. CASE ShellGone \/ EngineExits
    BY <1>2, <1>3 DEF ShellGone, EngineExits
  <1>4. CASE Connect
    BY <1>4 DEF StageInv, Connect, Serving
  <1>5. CASE Created \/ StartedSets
    BY <1>5 DEF StageInv, Created, StartedSets, Serving, localVars
  <1>6. CASE PostStart
    BY <1>6 DEF StageInv, PostStart, Serving, localVars
  <1>7. CASE Cleanup
    <2>1. \A p \in loaded : p \in referenced => rules'[p] = rules[p]
      BY <1>7 DEF Cleanup, EngineTypes, LocalTypes
    <2>. QED  BY <1>7, <2>1 DEF StageInv, Cleanup, Serving
  <1>8. ASSUME NEW p \in Packs, LoadPack(p) PROVE StageInv'
    <2>1. CASE disk[p].state = "whole"
      <3>1. /\ engine = "new" /\ UNCHANGED <<engine, named, referenced>>
            /\ loaded' = loaded \cup {p} /\ p \in named
            /\ rules' = [rules EXCEPT ![p] = disk[p].list]
        BY <1>8, <2>1 DEF LoadPack
      <3>2. Base \ Ua \subseteq disk[p].list
        BY <2>1, PackLists
      <3>. QED  BY <3>1, <3>2 DEF StageInv, Serving, EngineTypes, LocalTypes
    <2>2. CASE disk[p].state # "whole"
      <3>1. EngineGone
        BY <1>8, <2>2 DEF LoadPack
      <3>. QED  BY <1>2, <3>1
    <2>. QED  BY <2>1, <2>2
  <1>9. ASSUME NEW p \in Packs, StartWatcher(p) PROVE StageInv'
    BY <1>9, StageUnchanged DEF StartWatcher
  <1>10. ASSUME NEW p \in Packs, Reload(p) PROVE StageInv'
    <2>1. UNCHANGED <<engine, named, loaded, referenced>>
      BY <1>10 DEF Reload
    <2>2. \A q \in loaded : Base \ Ua \subseteq rules[q] => Base \ Ua \subseteq rules'[q]
      BY <1>10, PackLists DEF Reload, EngineTypes, LocalTypes
    <2>. QED  BY <2>1, <2>2 DEF StageInv, Serving
  <1>11. ASSUME NEW r \in Remotes, FetchFailed(r) PROVE StageInv'
    <2>1. CASE engine = "start"
      <3>1. EngineGone
        BY <1>11, <2>1 DEF FetchFailed
      <3>. QED  BY <1>2, <3>1
    <2>2. CASE engine # "start"
      BY <1>11, <2>2, StageUnchanged DEF FetchFailed, localVars
    <2>. QED  BY <2>1, <2>2
  <1>12. ASSUME NEW r \in Remotes,
                Restore(r) \/ Request(r) \/ Answer(r) \/ NotModified(r) \/ Fetched(r)
         PROVE  StageInv'
    BY <1>12, StageUnchanged
       DEF Restore, Request, Answer, NotModified, Fetched, localVars
  <1>13. ASSUME NEW r \in Remotes, NEW v \in Versions, Publish(r, v)
         PROVE  StageInv'
    BY <1>13, StageUnchanged DEF Publish, localVars
  <1>. QED
    BY <1>1, <1>3, <1>4, <1>5, <1>6, <1>7, <1>8, <1>9, <1>10, <1>11, <1>12, <1>13,
       Zenon DEF Next, Start, Fetch, vars

-----------------------------------------------------------------------------
(* The remote sets: the tag held, the request under way, the cache.        *)

\* What the two exceptions of RemoteMatchesAnswer let through.
LeftOut(r, etag) == r \in untagged /\ etag = answered[r]

\* A request carries the tag held, a confirmation names it, and content comes
\* with its own tag or without.
AskedInv(r) ==
    /\ fetching[r].kind = "asked" => fetching[r].etag = lastEtag[r]
    /\ fetching[r].kind = "notModified" =>
          fetching[r].version = lastEtag[r] /\ lastEtag[r] # None
    /\ fetching[r].kind = "content" => fetching[r].etag \in {None, fetching[r].version}

\* The engine's content is the version last delivered or confirmed, and the tag
\* held is that of the content.
ContentInv(r) ==
    content[r] # None =>
        /\ lastEtag[r] \in {None, content[r]} \/ r \in untagged
        /\ \/ content[r] = answered[r] \/ copy[r] = "restored"
           \/ LeftOut(r, lastEtag[r])

\* The cache's copy has its own tag, is the one an engine holds the tag of
\* unless it is older, and is the version last delivered or confirmed if it is
\* the last answer's.
CopyInv(r) ==
    saved[r] # Nothing =>
        /\ saved[r].etag \in {None, saved[r].version} \/ r \in untagged
        /\ lastEtag[r] # None /\ copy[r] # "older" => saved[r].etag = lastEtag[r]
        /\ copy[r] = "last" =>
              saved[r].version = answered[r] \/ LeftOut(r, saved[r].etag)

Tagged(r) == AskedInv(r) /\ ContentInv(r) /\ CopyInv(r)

TagInv == \A r \in Remotes : Tagged(r)

\* A step that leaves a remote set alone keeps its part.
LEMMA TagUnchanged ==
    ASSUME NEW r \in Remotes, Tagged(r),
           fetching'[r] = fetching[r], lastEtag'[r] = lastEtag[r],
           answered'[r] = answered[r], content'[r] \in {content[r], None},
           saved'[r] = saved[r], copy'[r] = copy[r],
           r \in untagged' <=> r \in untagged
    PROVE  Tagged(r)'
  BY DEF Tagged, AskedInv, ContentInv, CopyInv, LeftOut

\* Every step keeps the tags.
LEMMA TagStep ==
    ASSUME EngineTypes, TagInv, [Next]_vars
    PROVE  TagInv'
  <1>. SUFFICES ASSUME NEW q \in Remotes PROVE Tagged(q)'
    BY DEF TagInv
  <1>0. Tagged(q)
    BY DEF TagInv
  <1>1. CASE UNCHANGED <<remoteVars, saved>>
    BY <1>0, <1>1, TagUnchanged DEF remoteVars, history
  <1>2. ASSUME EngineGone PROVE Tagged(q)'
    <2>1. /\ fetching'[q] = Idle /\ content'[q] = None /\ lastEtag'[q] = None
          /\ UNCHANGED <<answered, untagged, copy, saved>>
      BY <1>2 DEF EngineGone, outside, history
    <2>. QED  BY <1>0, <2>1 DEF Tagged, AskedInv, ContentInv, CopyInv, LeftOut, Idle
  <1>3. CASE Cleanup
    BY <1>0, <1>3, TagUnchanged DEF Cleanup, history, outside
  <1>4. ASSUME NEW r \in Remotes, Restore(r) PROVE Tagged(q)'
    <2>1. CASE q = r
      <3>1. /\ saved[q] # Nothing /\ fetching[q] = Idle
            /\ content'[q] = saved[q].version /\ lastEtag'[q] = saved[q].etag
            /\ copy'[q] = IF copy[q] = "older" THEN "restored" ELSE copy[q]
            /\ UNCHANGED <<fetching, answered, untagged, saved>>
        BY <1>4, <2>1 DEF Restore, EngineTypes, RemoteTypes, outside
      <3>2. copy[q] \in {"last", "older", "restored"}
        BY DEF EngineTypes, RemoteTypes
      <3>3. AskedInv(q)'
        BY <3>1 DEF AskedInv, Idle
      <3>4. ContentInv(q)'
        BY <1>0, <3>1, <3>2 DEF Tagged, ContentInv, CopyInv, LeftOut
      <3>5. CopyInv(q)'
        BY <1>0, <3>1, <3>2 DEF Tagged, CopyInv, LeftOut
      <3>. QED  BY <3>3, <3>4, <3>5 DEF Tagged
    <2>2. CASE q # r
      BY <1>0, <1>4, <2>2, TagUnchanged DEF Restore, EngineTypes, RemoteTypes, outside
    <2>. QED  BY <2>1, <2>2
  <1>5. ASSUME NEW r \in Remotes, Request(r) PROVE Tagged(q)'
    <2>1. CASE q = r
      <3>1. /\ fetching'[q] = [kind |-> "asked", etag |-> lastEtag[q]]
            /\ UNCHANGED <<content, lastEtag, answered, untagged, copy, saved>>
        BY <1>5, <2>1 DEF Request, EngineTypes, RemoteTypes, history, outside
      <3>. QED  BY <1>0, <3>1 DEF Tagged, AskedInv, ContentInv, CopyInv, LeftOut
    <2>2. CASE q # r
      BY <1>0, <1>5, <2>2, TagUnchanged
         DEF Request, EngineTypes, RemoteTypes, history, outside
    <2>. QED  BY <2>1, <2>2
  <1>6. ASSUME NEW r \in Remotes, Answer(r) PROVE Tagged(q)'
    <2>1. CASE q = r
      <3> DEFINE v == upstream[r]
      <3>1. v # None /\ fetching[r].etag = lastEtag[r]
        BY <1>0, <1>6, <2>1, Bounds DEF EngineTypes, StageTypes, Tagged, AskedInv, Answer
      <3>2. UNCHANGED <<content, lastEtag, answered, untagged, copy, saved>>
        BY <1>6 DEF Answer, history, outside
      <3>3. \/ fetching'[r] = Reply("notModified", v, v) /\ fetching[r].etag = v
            \/ fetching'[r] \in {Reply("content", v, v), Reply("content", v, None),
                                 Reply("garbage", None, v), Reply("error", None, None)}
        BY <1>6 DEF Answer, EngineTypes, RemoteTypes
      <3>4. CASE fetching'[r] = Reply("notModified", v, v) /\ fetching[r].etag = v
        BY <1>0, <2>1, <3>1, <3>2, <3>4
           DEF Tagged, AskedInv, ContentInv, CopyInv, LeftOut, Reply
      <3>5. CASE fetching'[r] \in {Reply("content", v, v), Reply("content", v, None),
                                   Reply("garbage", None, v), Reply("error", None, None)}
        BY <1>0, <2>1, <3>2, <3>5
           DEF Tagged, AskedInv, ContentInv, CopyInv, LeftOut, Reply
      <3>. QED  BY <3>3, <3>4, <3>5
    <2>2. CASE q # r
      BY <1>0, <1>6, <2>2, TagUnchanged
         DEF Answer, EngineTypes, RemoteTypes, history, outside
    <2>. QED  BY <2>1, <2>2
  <1>7. ASSUME NEW r \in Remotes, FetchFailed(r) PROVE Tagged(q)'
    <2>1. CASE engine = "start"
      <3>1. EngineGone
        BY <1>7, <2>1 DEF FetchFailed
      <3>. QED  BY <1>2, <3>1
    <2>2. CASE engine # "start" /\ q = r
      <3>1. /\ fetching'[q] = Idle
            /\ UNCHANGED <<content, lastEtag, answered, untagged, copy, saved>>
        BY <1>7, <2>2 DEF FetchFailed, EngineTypes, RemoteTypes, history, outside
      <3>. QED  BY <1>0, <3>1 DEF Tagged, AskedInv, ContentInv, CopyInv, LeftOut, Idle
    <2>3. CASE engine # "start" /\ q # r
      BY <1>0, <1>7, <2>3, TagUnchanged
         DEF FetchFailed, EngineTypes, RemoteTypes, history, outside
    <2>. QED  BY <2>1, <2>2, <2>3
  <1>8. ASSUME NEW r \in Remotes, NotModified(r) PROVE Tagged(q)'
    <2>1. CASE q = r
      <3>1. /\ fetching'[q] = Idle /\ answered'[q] = lastEtag[q] /\ lastEtag[q] # None
            /\ copy'[q] = IF copy[q] = "restored" THEN "last" ELSE copy[q]
            /\ UNCHANGED <<content, lastEtag, untagged, saved>>
        BY <1>0, <1>8, <2>1
           DEF Tagged, AskedInv, NotModified, EngineTypes, RemoteTypes, outside
      <3>2. copy[q] \in {"last", "older", "restored"}
        BY DEF EngineTypes, RemoteTypes
      <3>3. AskedInv(q)'
        BY <3>1 DEF AskedInv, Idle
      <3>4. ContentInv(q)'
        BY <1>0, <3>1 DEF Tagged, ContentInv, LeftOut
      <3>5. CopyInv(q)'
        BY <1>0, <3>1, <3>2 DEF Tagged, CopyInv, LeftOut
      <3>. QED  BY <3>3, <3>4, <3>5 DEF Tagged
    <2>2. CASE q # r
      BY <1>0, <1>8, <2>2, TagUnchanged
         DEF NotModified, EngineTypes, RemoteTypes, outside
    <2>. QED  BY <2>1, <2>2
  <1>9. ASSUME NEW r \in Remotes, Fetched(r) PROVE Tagged(q)'
    <2>1. CASE q = r
      <3> DEFINE v == fetching[q].version
                 tag == fetching[q].etag
                 etag == IF tag # None THEN tag ELSE lastEtag[q]
      <3>1. /\ fetching'[q] = Idle /\ content'[q] \in {v, None}
            /\ lastEtag'[q] = etag /\ answered'[q] = v
            /\ (tag = None => q \in untagged') /\ (q \in untagged => q \in untagged')
            /\ \/ saved'[q] = [version |-> v, etag |-> etag] /\ copy'[q] = "last"
               \/ saved'[q] = saved[q] /\ copy'[q] = "older"
        BY <1>9, <2>1 DEF Fetched, EngineTypes, RemoteTypes
      <3>2. tag \in {None, v}
        BY <1>0, <1>9, <2>1 DEF Tagged, AskedInv, Fetched
      <3>3. AskedInv(q)'
        BY <3>1 DEF AskedInv, Idle
      <3>4. ContentInv(q)'
        BY <3>1, <3>2 DEF ContentInv, LeftOut
      <3>5. CopyInv(q)'
        BY <1>0, <3>1, <3>2 DEF Tagged, CopyInv, LeftOut
      <3>. QED  BY <3>3, <3>4, <3>5 DEF Tagged
    <2>2. CASE q # r
      BY <1>0, <1>9, <2>2, TagUnchanged DEF Fetched, EngineTypes, RemoteTypes
    <2>. QED  BY <2>1, <2>2
  <1>10. ASSUME UpdatePacks \/ Connect \/ Created \/ StartedSets \/ PostStart
                \/ UNCHANGED engineVars
         PROVE  UNCHANGED <<remoteVars, saved>>
    BY <1>10 DEF UpdatePacks, Connect, Created, StartedSets, PostStart, engineVars,
                 outside
  <1>11. ASSUME NEW p \in Packs, StartWatcher(p) \/ Reload(p)
         PROVE  UNCHANGED <<remoteVars, saved>>
    BY <1>11 DEF StartWatcher, Reload, outside
  <1>12. ASSUME NEW p \in Packs, LoadPack(p)
         PROVE  EngineGone \/ UNCHANGED <<remoteVars, saved>>
    BY <1>12 DEF LoadPack, outside
  <1>13. ASSUME NEW r \in Remotes, NEW v \in Versions, Publish(r, v)
         PROVE  UNCHANGED <<remoteVars, saved>>
    BY <1>13 DEF Publish
  <1>14. ASSUME ShellGone \/ EngineExits PROVE EngineGone
    BY <1>14 DEF ShellGone, EngineExits
  <1>. QED
    BY <1>1, <1>2, <1>3, <1>4, <1>5, <1>6, <1>7, <1>8, <1>9, <1>10, <1>11, <1>12,
       <1>13, <1>14, Zenon DEF Next, Start, Fetch, vars

-----------------------------------------------------------------------------
(* The theorems.                                                           *)

EngineInv == EngineTypes /\ PackInv /\ StageInv /\ TagInv

\* The invariant that the theorems follow from.
LEMMA EngineInvariant == Spec => []EngineInv
  <1>1. Init => EngineInv
    <2>. SUFFICES ASSUME Init PROVE EngineInv
      OBVIOUS
    <2>1. EngineTypes
      BY Bounds DEF Init, EngineTypes, LocalTypes, RemoteTypes, StageTypes,
                    VersionsOrNone, Requests, Nothing
    <2>2. PackInv
      BY Bounds DEF Init, PackInit, PackInv, PackTypeOK, Absent
    <2>3. StageInv /\ TagInv
      BY DEF Init, StageInv, TagInv, Tagged, AskedInv, ContentInv, CopyInv, Serving,
             Idle
    <2>. QED  BY <2>1, <2>2, <2>3 DEF EngineInv
  <1>2. EngineInv /\ [Next]_vars => EngineInv'
    BY PackSteps, PackStep, TypesStep, StageStep, TagStep DEF EngineInv
  <1>. QED  BY <1>1, <1>2, PTL DEF Spec

\* The type invariant.
THEOREM RuleSetTypes == Spec => []TypeOK
  <1>1. EngineInv => TypeOK
    BY DEF EngineInv, EngineTypes, LocalTypes, RemoteTypes, StageTypes, PackInv,
           VersionsOrNone, TypeOK
  <1>. QED  BY <1>1, EngineInvariant, PTL

\* However the thread's writes and the watcher's reloads fall, and whatever the
\* downloads bring, the built-in entries are routed while the engine serves.
THEOREM BaseAlwaysRoutedAlways == Spec => []BaseAlwaysRouted
  <1>1. EngineInv => BaseAlwaysRouted
    BY DEF EngineInv, StageInv, BaseAlwaysRouted, Serving
  <1>. QED  BY <1>1, EngineInvariant, PTL

\* The content of a remote set is what its server last said it was, for any
\* number of versions, failures and lives of the engine, but for a cache whose
\* last save had failed and an answer without a tag.
THEOREM RemoteMatchesAnswerAlways == Spec => []RemoteMatchesAnswer
  <1>1. EngineInv => RemoteMatchesAnswer
    BY DEF EngineInv, TagInv, Tagged, ContentInv, LeftOut, RemoteMatchesAnswer
  <1>. QED  BY <1>1, EngineInvariant, PTL

-----------------------------------------------------------------------------
(* What makes a list come into force.  RulesCatchUp and TornHeals say that *)
(* something happens in the end; what they rest on besides fairness is     *)
(* that the step which makes it happen is always there to be taken.        *)

\* A set that was read, and was not dropped by the clean-up, holds what is on
\* disk, unless an event is there for its watcher or the change came before it.
UpToDate(p) ==
    \/ rules[p] = disk[p].list
    \/ p \in missed \/ p \in pending \/ disk[p].state # "whole"
    \/ engine = "running" /\ p \notin referenced

ChangeInv == watching \subseteq loaded /\ \A p \in loaded : UpToDate(p)

\* A step that leaves the local sets alone.
LEMMA ChangeUnchanged ==
    ASSUME ChangeInv, UNCHANGED <<disk, engine, localVars, referenced>>
    PROVE  ChangeInv'
  BY DEF ChangeInv, UpToDate, localVars

\* Every change of a file is in force, has an event, or was missed.
LEMMA ChangeStep ==
    ASSUME EngineTypes, StageInv, ChangeInv, [Next]_vars
    PROVE  ChangeInv'
  <1>1. CASE UNCHANGED vars \/ (Launch /\ UNCHANGED engineVars)
    BY <1>1, ChangeUnchanged DEF vars, packVars, engineVars, Launch
  <1>2. CASE UpdatePacks
    <2>1. UNCHANGED <<engine, loaded, rules, watching, referenced>>
      BY <1>2 DEF UpdatePacks
    <2>2. \A p \in loaded : disk'[p] # disk[p] => p \in pending' \/ p \in missed'
      BY <1>2 DEF UpdatePacks, Written, EngineTypes, LocalTypes
    <2>3. pending \subseteq pending' /\ missed \subseteq missed'
      BY <1>2 DEF UpdatePacks, Written
    <2>. QED  BY <2>1, <2>2, <2>3 DEF ChangeInv, UpToDate
  <1>3. ASSUME EngineGone PROVE ChangeInv'
    BY <1>3 DEF ChangeInv, EngineGone
  <1>4. CASE ShellGone \/ EngineExits
    BY <1>3, <1>4 DEF ShellGone, EngineExits
  <1>5. CASE Connect
    BY <1>5 DEF ChangeInv, StageInv, Connect
  <1>6. CASE Created \/ StartedSets
    BY <1>6 DEF ChangeInv, UpToDate, Created, StartedSets, localVars, packVars
  <1>7. CASE PostStart
    BY <1>7 DEF ChangeInv, UpToDate, PostStart, localVars, packVars
  <1>8. CASE Cleanup
    <2>1. \A p \in loaded : p \in referenced => rules'[p] = rules[p]
      BY <1>8 DEF Cleanup, EngineTypes, LocalTypes
    <2>. QED  BY <1>8, <2>1 DEF ChangeInv, UpToDate, Cleanup, packVars
  <1>9. ASSUME NEW p \in Packs, LoadPack(p) PROVE ChangeInv'
    <2>1. CASE disk[p].state = "whole"
      <3>1. /\ UNCHANGED <<engine, watching, pending, missed, referenced, disk>>
            /\ loaded' = loaded \cup {p}
            /\ rules' = [rules EXCEPT ![p] = disk[p].list]
        BY <1>9, <2>1 DEF LoadPack, packVars
      <3>. QED  BY <3>1 DEF ChangeInv, UpToDate, EngineTypes, LocalTypes
    <2>2. CASE disk[p].state # "whole"
      <3>1. EngineGone
        BY <1>9, <2>2 DEF LoadPack
      <3>. QED  BY <1>3, <3>1
    <2>. QED  BY <2>1, <2>2
  <1>10. ASSUME NEW p \in Packs, StartWatcher(p) PROVE ChangeInv'
    <2>1. p \in loaded
      BY <1>10 DEF StartWatcher, StageInv
    <2>. QED  BY <1>10, <2>1 DEF ChangeInv, UpToDate, StartWatcher, packVars
  <1>11. ASSUME NEW p \in Packs, Reload(p) PROVE ChangeInv'
    <2>1. UNCHANGED <<engine, watching, loaded, referenced, disk>>
      BY <1>11 DEF Reload, packVars
    <2>2. \A q \in loaded : q # p =>
             /\ rules'[q] = rules[q] /\ (q \in pending' <=> q \in pending)
             /\ (q \in missed' <=> q \in missed)
      BY <1>11 DEF Reload, EngineTypes, LocalTypes
    <2>3. disk[p].state = "whole" => rules'[p] = disk[p].list
      BY <1>11 DEF Reload, EngineTypes, LocalTypes
    <2>. QED  BY <2>1, <2>2, <2>3 DEF ChangeInv, UpToDate
  <1>12. ASSUME NEW r \in Remotes, FetchFailed(r) PROVE ChangeInv'
    <2>1. CASE engine = "start"
      <3>1. EngineGone
        BY <1>12, <2>1 DEF FetchFailed
      <3>. QED  BY <1>3, <3>1
    <2>2. CASE engine # "start"
      BY <1>12, <2>2, ChangeUnchanged DEF FetchFailed, packVars
    <2>. QED  BY <2>1, <2>2
  <1>13. ASSUME NEW r \in Remotes,
                Restore(r) \/ Request(r) \/ Answer(r) \/ NotModified(r) \/ Fetched(r)
         PROVE  ChangeInv'
    BY <1>13, ChangeUnchanged
       DEF Restore, Request, Answer, NotModified, Fetched, packVars
  <1>14. ASSUME NEW r \in Remotes, NEW v \in Versions, Publish(r, v)
         PROVE  ChangeInv'
    BY <1>14, ChangeUnchanged DEF Publish, packVars
  <1>. QED
    BY <1>1, <1>2, <1>4, <1>5, <1>6, <1>7, <1>8, <1>9, <1>10, <1>11, <1>12, <1>13,
       <1>14, Zenon DEF Next, Start, Fetch

\* A list on disk that is not in force has an event that will bring it in
\* force, however writes, half-written files and reloads interleave: none is
\* lost but those made between the first reading and the watcher.  It is what
\* RulesCatchUp rests on besides the fairness of Reload.
NoChangeLost == \A p \in Packs : Stale(p) /\ p \notin missed => p \in pending

\* NoChangeLost for any lists, launches and starts (rule_set_local.go:60-75,
\* 89-97, 99-153).
THEOREM NoChangeLostAlways == Spec => []NoChangeLost
  <1>1. Init => ChangeInv
    BY DEF Init, ChangeInv
  <1>2. EngineInv /\ ChangeInv /\ [Next]_vars => ChangeInv'
    BY ChangeStep DEF EngineInv
  <1>3. EngineInv /\ ChangeInv => NoChangeLost
    BY DEF EngineInv, StageInv, ChangeInv, UpToDate, NoChangeLost, Stale, Serving
  <1>. QED  BY <1>1, <1>2, <1>3, EngineInvariant, PTL DEF Spec

-----------------------------------------------------------------------------
(* The thread that repairs a torn file.                                    *)

\* The thread has still to come to the file of p, or to finish it.
Ahead(p) ==
    /\ at.step \in {"download", "open", "write"}
    /\ \E i \in {1, 2} : at.pack <= i /\ Order[i] = p

\* While a shell runs, a torn file is one its thread has yet to write, or
\* failed to write.
TornIsAhead ==
    at # Off => \A p \in Packs : disk[p] = Torn => p \in failed \/ Ahead(p)

\* How far the thread has come in its two packs.
Progress ==
    IF at = Done THEN 9
    ELSE 3 * at.pack + (IF at.step = "download" THEN 0 ELSE IF at.step = "open" THEN 1 ELSE 2)

\* Where the thread may be.
LEMMA ThreadPlaces ==
    ASSUME PackInv, at.step \in {"download", "open", "write"}
    PROVE  \E s \in {"download", "open", "write"}, i \in {1, 2} : at = At(s, i)
  BY DEF PackInv, PackTypeOK, Off, Done, At

\* TornIsAhead, whatever launches died in the middle of a write before
\* (russia_pack.rs:16-20, 71-74): with the thread's progress and its fairness, TornHeals.
THEOREM TornIsAheadAlways == Spec => []TornIsAhead
  <1>1. Init => TornIsAhead
    BY DEF Init, PackInit, TornIsAhead
  <1>2. PackInv /\ TornIsAhead /\ [Next]_vars => TornIsAhead'
    <2>. SUFFICES ASSUME PackInv, TornIsAhead, [Next]_vars PROVE TornIsAhead'
      OBVIOUS
    <2>1. CASE UNCHANGED packVars
      BY <2>1 DEF TornIsAhead, Ahead, packVars
    <2>2. CASE Launch
      BY <2>2 DEF TornIsAhead, Ahead, Launch, At, Order, Packs
    <2>3. CASE ShellEnds
      BY <2>3 DEF TornIsAhead, ShellEnds
    <2>4. ASSUME NEW s \in {"download", "open", "write"}, NEW i \in {1, 2},
                 at = At(s, i), Update
          PROVE  TornIsAhead'
      <3>1. at # Off /\ at.step = s /\ at.pack = i /\ Pack = Order[i]
        BY <2>4 DEF At, Off, Pack
      <3>2. CASE Download
        <4>1. at' = At("open", i) /\ UNCHANGED <<disk, failed>>
          BY <3>1, <3>2 DEF Download
        <4>. QED  BY <3>1, <4>1 DEF TornIsAhead, Ahead, At
      <3>3. ASSUME at' = NextPack, NEW q \in Packs, q = Order[i],
                   \A p \in Packs : p # q => disk'[p] = disk[p],
                   failed \subseteq failed', q \in failed' \/ disk'[q] # Torn
            PROVE  TornIsAhead'
        <4>1. at' = IF i = 1 THEN At("download", 2) ELSE Done
          BY <3>1, <3>3 DEF NextPack
        <4>. QED  BY <3>1, <3>3, <4>1 DEF TornIsAhead, Ahead, At, Order, Packs, Done
      <3>4. Order[i] \in Packs
        BY DEF Order, Packs
      <3>5. CASE OpenFile
        <4>1. CASE at' = At("write", i) /\ disk' = [disk EXCEPT ![Pack] = Torn]
                   /\ UNCHANGED failed
          BY <3>1, <3>4, <4>1 DEF TornIsAhead, Ahead, At, PackInv, PackTypeOK
        <4>2. CASE at' = NextPack /\ failed' = failed \cup {Pack} /\ UNCHANGED disk
          BY <3>1, <3>3, <3>4, <4>2
        <4>. QED  BY <3>1, <3>5, <4>1, <4>2 DEF OpenFile
      <3>6. CASE WriteFile
        <4>1. at' = NextPack
          BY <3>6 DEF WriteFile
        <4>2. CASE disk' = [disk EXCEPT ![Pack] = Whole(Merged)] /\ UNCHANGED failed
          <5>1. disk'[Order[i]] # Torn
            BY <3>1, <3>4, <4>2 DEF PackInv, PackTypeOK, Torn, Whole
          <5>2. \A p \in Packs : p # Order[i] => disk'[p] = disk[p]
            BY <3>1, <4>2 DEF PackInv, PackTypeOK
          <5>. QED  BY <3>3, <3>4, <4>1, <4>2, <5>1, <5>2
        <4>3. CASE failed' = failed \cup {Pack} /\ UNCHANGED disk
          BY <3>1, <3>3, <3>4, <4>1, <4>3
        <4>. QED  BY <3>6, <4>2, <4>3 DEF WriteFile
      <3>. QED  BY <2>4, <3>2, <3>5, <3>6 DEF Update
    <2>5. Update => at.step \in {"download", "open", "write"}
      BY DEF Update, Download, OpenFile, WriteFile
    <2>. QED  BY <2>1, <2>2, <2>3, <2>4, <2>5, PackSteps, ThreadPlaces
  <1>. QED  BY <1>1, <1>2, EngineInvariant, PTL DEF Spec, EngineInv

\* A step of the thread takes it forward, so that it ends: each pack is fetched,
\* emptied and written, and passed by after an error (russia_pack.rs:16-45).
THEOREM ThreadAdvances == Spec => [][Update => Progress' > Progress /\ Progress' <= 9]_vars
  <1>1. PackInv /\ [Next]_vars => (Update => Progress' > Progress /\ Progress' <= 9)
    <2>. SUFFICES ASSUME PackInv, Update
                  PROVE  Progress' > Progress /\ Progress' <= 9
      OBVIOUS
    <2>1. PICK s \in {"download", "open", "write"}, i \in {1, 2} : at = At(s, i)
      BY ThreadPlaces DEF Update, Download, OpenFile, WriteFile
    <2>2. \/ s = "download" /\ at' = At("open", i)
          \/ s = "open" /\ at' = At("write", i)
          \/ s \in {"open", "write"} /\ at' = IF i = 1 THEN At("download", 2) ELSE Done
      BY <2>1 DEF Update, Download, OpenFile, WriteFile, At, NextPack
    <2>. QED  BY <2>1, <2>2 DEF Progress, At, Done
  <1>. QED  BY <1>1, EngineInvariant, PTL DEF Spec, EngineInv

=============================================================================
