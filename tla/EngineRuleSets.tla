--------------------------- MODULE EngineRuleSets ---------------------------
(***************************************************************************)
(* The rule sets of the engine over its life: read when the engine is      *)
(* created (router.go, Initialize), prepared while it starts (Start), kept *)
(* up to date while it runs.  A local set (rule_set_local.go) is a pack    *)
(* file of RussiaPack and is read again when the file changes; a remote    *)
(* set (rule_set_remote.go) is fetched from its server with an entity tag, *)
(* and saved in the cache file if there is one.                            *)
(*                                                                         *)
(* A version of a remote set is a number and so is its tag.                *)
(***************************************************************************)
EXTENDS RussiaPack, FiniteSets

CONSTANTS
    Remotes,        \* the remote rule sets of the configuration
    Used,           \* the sets some rule names
    MaxVersions,    \* bound: versions of a set on its server
    MaxConnects,    \* bound: starts of the engine
    MaxUpdates      \* bound: fetches in one life of the engine

ASSUME RemotesAssumption == Remotes \cap Packs = {} /\ Used \subseteq Remotes \cup Packs
ASSUME EngineBoundsAssumption ==
    {MaxConnects, MaxUpdates} \subseteq Nat /\ MaxVersions \in Nat \ {0}

None == 0
Versions == 1..MaxVersions

VARIABLES
    engine,         \* stage of the engine
    connects,
    \* local sets
    named,          \* packs in the engine's configuration
    loaded,         \* packs that New has read
    rules,          \* entries of each local set
    watching,       \* packs with a started watcher
    pending,        \* packs with a file event not handled yet
    missed,         \* packs written between the reading and the watching
    \* remote sets
    content,        \* version of each remote set in use
    lastEtag,
    fetching,       \* the request or the answer under way
    updates,
    referenced,     \* sets whose reference count is not zero
    \* outside the engine
    upstream,       \* version on each set's server
    caching,        \* is a cache file configured?
    saved,          \* of each remote set: what the cache file holds
    \* history, over all lives of the engine
    answered,       \* version the server last delivered or confirmed
    untagged,       \* sets that were ever answered without a tag
    copy            \* the cache's copy: "last" answer, "older", "restored"

localVars == <<named, loaded, rules, watching, pending, missed>>
history == <<answered, untagged, copy>>
remoteVars == <<content, lastEtag, fetching, updates, history>>
outside == <<upstream, caching, saved>>
engineVars == <<engine, connects, localVars, remoteVars, referenced, outside>>
vars == <<packVars, engineVars>>

Nothing == [version |-> None, etag |-> None]
Idle == [kind |-> "idle"]

Init ==
    /\ PackInit
    /\ engine = "off" /\ connects = 0
    /\ named = {} /\ loaded = {} /\ watching = {} /\ pending = {} /\ missed = {}
    /\ rules = [p \in Packs |-> {}]
    /\ content = [r \in Remotes |-> None] /\ lastEtag = [r \in Remotes |-> None]
    /\ fetching = [r \in Remotes |-> Idle] /\ updates = 0
    /\ referenced = {}
    /\ upstream = [r \in Remotes |-> 1] /\ caching \in BOOLEAN
    /\ saved = [r \in Remotes |-> Nothing]
    /\ answered = [r \in Remotes |-> None] /\ untagged = {}
    /\ copy = [r \in Remotes |-> "last"]

-----------------------------------------------------------------------------
(* Creating the engine: the configuration names the packs whose files are  *)
(* there, outside first, and New reads each.                               *)

EngineGone ==
    /\ engine' = "off"
    /\ named' = {} /\ loaded' = {} /\ watching' = {} /\ pending' = {} /\ missed' = {}
    /\ rules' = [p \in Packs |-> {}]
    /\ content' = [r \in Remotes |-> None] /\ lastEtag' = [r \in Remotes |-> None]
    /\ fetching' = [r \in Remotes |-> Idle] /\ updates' = 0
    /\ referenced' = {}
    /\ UNCHANGED <<connects, outside, history>>

Connect ==
    /\ at # Off /\ engine = "off" /\ connects < MaxConnects
    /\ connects' = connects + 1
    /\ engine' = "new"
    /\ named' = {p \in Packs : disk[p].state # "absent"}
    /\ UNCHANGED <<packVars, loaded, rules, watching, pending, missed, remoteVars,
                   referenced, outside>>

\* reloadFile, from New: a file that cannot be parsed ends the engine.
LoadPack(p) ==
    /\ engine = "new" /\ p \in named \ loaded
    /\ p = "inside" => "outside" \notin named \ loaded
    /\ IF disk[p].state = "whole"
       THEN /\ rules' = [rules EXCEPT ![p] = disk[p].list]
            /\ loaded' = loaded \cup {p}
            /\ UNCHANGED <<engine, connects, named, watching, pending, missed,
                           remoteVars, referenced, outside>>
       ELSE EngineGone
    /\ UNCHANGED packVars

Created ==
    /\ engine = "new" /\ loaded = named
    /\ engine' = "start"
    /\ UNCHANGED <<packVars, connects, localVars, remoteVars, referenced, outside>>

-----------------------------------------------------------------------------
(* Local sets: the watcher, and the file events it turns into reloads.     *)

\* StartContext of a local set; a watcher that does not start is logged.
StartWatcher(p) ==
    /\ engine = "start" /\ p \in named \ watching
    /\ watching' = watching \cup {p}
    /\ UNCHANGED <<packVars, engine, connects, named, loaded, rules, pending,
                   missed, remoteVars, referenced, outside>>

\* Mutant: the watcher tells of the truncation only.
WrittenFirst ==
    LET new == {p \in Packs : disk'[p] # disk[p] /\ disk'[p] = Torn} IN
        /\ pending' = pending \cup (new \cap watching)
        /\ missed' = missed \cup ((new \cap loaded) \ watching)

\* The thread of the shell writes while the engine is there: a watched file
\* raises an event, one that was read and is not watched raises none.
Written ==
    LET new == {p \in Packs : disk'[p] # disk[p]} IN
        /\ pending' = pending \cup (new \cap watching)
        /\ missed' = missed \cup ((new \cap loaded) \ watching)

\* Mutant: a file that does not parse empties the set.
ReloadAnything(p) ==
    /\ p \in pending
    /\ pending' = pending \ {p} /\ missed' = missed \ {p}
    /\ rules' = [rules EXCEPT ![p] = disk[p].list]
    /\ UNCHANGED <<packVars, engine, connects, named, loaded, watching,
                   remoteVars, referenced, outside>>

\* reloadFile, from the watcher's callback: the file replaces the rules if it
\* parses, otherwise the rules stay.
Reload(p) ==
    /\ p \in pending
    /\ pending' = pending \ {p}
    /\ IF disk[p].state = "whole"
       THEN rules' = [rules EXCEPT ![p] = disk[p].list] /\ missed' = missed \ {p}
       ELSE UNCHANGED <<rules, missed>>
    /\ UNCHANGED <<packVars, engine, connects, named, loaded, watching,
                   remoteVars, referenced, outside>>

-----------------------------------------------------------------------------
(* Remote sets.                                                            *)

\* StartContext: the cached content is restored, tag and all, be it the last
\* that came or, where that could not be saved, an older one ...
Restore(r) ==
    /\ engine = "start" /\ content[r] = None /\ fetching[r] = Idle
    /\ caching /\ saved[r] # Nothing
    /\ content' = [content EXCEPT ![r] = saved[r].version]
    /\ lastEtag' = [lastEtag EXCEPT ![r] = saved[r].etag]
    /\ copy' = [copy EXCEPT ![r] = IF @ = "older" THEN "restored" ELSE @]
    /\ UNCHANGED <<packVars, engine, connects, localVars, fetching, updates,
                   answered, untagged, referenced, outside>>

\* ... and without it the set is fetched; later the ticker fetches it.
Request(r) ==
    /\ fetching[r] = Idle
    /\ \/ engine = "start" /\ content[r] = None /\ ~(caching /\ saved[r] # Nothing)
       \/ engine \in {"started", "running"} /\ updates < MaxUpdates
    /\ fetching' = [fetching EXCEPT ![r] = [kind |-> "asked", etag |-> lastEtag[r]]]
    /\ updates' = IF engine = "start" THEN updates ELSE updates + 1
    /\ UNCHANGED <<packVars, engine, connects, localVars, content, lastEtag,
                   history, referenced, outside>>

Reply(kind, version, etag) == [kind |-> kind, version |-> version, etag |-> etag]

\* The server answers with its version, with or without a tag, or confirms
\* the version that the request's tag names; a page that is no rule set may
\* come instead, or nothing.
Answer(r) ==
    /\ fetching[r].kind = "asked"
    /\ LET v == upstream[r]
           proper == IF fetching[r].etag = v
                     THEN {Reply("notModified", v, v)}
                     ELSE {Reply("content", v, v), Reply("content", v, None)} IN
           \E reply \in proper \cup {Reply("garbage", None, v), Reply("error", None, None)} :
               fetching' = [fetching EXCEPT ![r] = reply]
    /\ UNCHANGED <<packVars, engine, connects, localVars, content, lastEtag,
                   updates, history, referenced, outside>>

\* Mutant: the tag is taken before the content is parsed.
FetchFailedTagged(r) ==
    /\ fetching[r].kind \in {"garbage", "error"}
    /\ IF engine = "start"
       THEN EngineGone
       ELSE /\ fetching' = [fetching EXCEPT ![r] = Idle]
            /\ lastEtag' = [lastEtag EXCEPT ![r] =
                   IF fetching[r].kind = "garbage" THEN fetching[r].etag ELSE @]
            /\ UNCHANGED <<engine, connects, localVars, content, updates,
                           history, referenced, outside>>
    /\ UNCHANGED packVars

\* fetch ends in an error: the first one of a set ends the engine.
FetchFailed(r) ==
    /\ fetching[r].kind \in {"garbage", "error"}
    /\ IF engine = "start"
       THEN EngineGone
       ELSE /\ fetching' = [fetching EXCEPT ![r] = Idle]
            /\ UNCHANGED <<engine, connects, localVars, content, lastEtag, updates,
                           history, referenced, outside>>
    /\ UNCHANGED packVars

\* The answer says nothing has changed since the version of the tag sent.
NotModified(r) ==
    /\ fetching[r].kind = "notModified"
    /\ fetching' = [fetching EXCEPT ![r] = Idle]
    /\ answered' = [answered EXCEPT ![r] = fetching[r].version]
    /\ copy' = [copy EXCEPT ![r] = IF @ = "restored" THEN "last" ELSE @]
    /\ UNCHANGED <<packVars, engine, connects, localVars, content, lastEtag,
                   updates, untagged, referenced, outside>>

\* New content: the rules, then the tag if there is one, then the cache file,
\* which may fail.  A running engine drops the rules of a set nobody names.
Fetched(r) ==
    /\ fetching[r].kind = "content"
    /\ LET v == fetching[r].version
           tag == fetching[r].etag
           etag == IF tag # None THEN tag ELSE lastEtag[r] IN
           /\ content' = [content EXCEPT ![r] =
                  IF engine = "start" \/ r \in referenced THEN v ELSE None]
           /\ lastEtag' = [lastEtag EXCEPT ![r] = etag]
           /\ answered' = [answered EXCEPT ![r] = v]
           /\ untagged' = IF tag = None THEN untagged \cup {r} ELSE untagged
           /\ \/ /\ caching /\ saved' = [saved EXCEPT ![r] = [version |-> v, etag |-> etag]]
                 /\ copy' = [copy EXCEPT ![r] = "last"]
              \/ /\ saved' = saved
                 /\ copy' = [copy EXCEPT ![r] = "older"]
    /\ fetching' = [fetching EXCEPT ![r] = Idle]
    /\ UNCHANGED <<packVars, engine, connects, localVars, updates, referenced,
                   upstream, caching>>

\* The publisher replaces a set, or goes back to an earlier one.
Publish(r, v) ==
    /\ upstream[r] # v
    /\ upstream' = [upstream EXCEPT ![r] = v]
    /\ UNCHANGED <<packVars, engine, connects, localVars, remoteVars, referenced,
                   caching, saved>>

-----------------------------------------------------------------------------
(* The stages of the engine.                                               *)

\* Every task of the start group has returned.
StartedSets ==
    /\ engine = "start"
    /\ \A r \in Remotes : content[r] # None
    /\ engine' = "postStart"
    /\ UNCHANGED <<packVars, connects, localVars, remoteVars, referenced, outside>>

\* The rules look up the sets they name and count the references.
PostStart ==
    /\ engine = "postStart"
    /\ engine' = "started"
    /\ referenced' = Used
    /\ UNCHANGED <<packVars, connects, localVars, remoteVars, outside>>

\* The rules of the sets nobody names are dropped.
Cleanup ==
    /\ engine = "started"
    /\ engine' = "running"
    /\ rules' = [p \in Packs |-> IF p \in referenced THEN rules[p] ELSE {}]
    /\ content' = [r \in Remotes |-> IF r \in referenced THEN content[r] ELSE None]
    /\ UNCHANGED <<packVars, connects, named, loaded, watching, pending, missed,
                   lastEtag, fetching, updates, history, referenced, outside>>

\* The engine is stopped or exits.
EngineExits == engine # "off" /\ EngineGone /\ UNCHANGED packVars

\* A step of the shell's thread, seen by the engine.
UpdatePacks ==
    /\ Update /\ Written
    /\ UNCHANGED <<engine, connects, named, loaded, rules, watching, remoteVars,
                   referenced, outside>>

\* The engine dies with the shell.
ShellGone == ShellEnds /\ EngineGone

Start == Created \/ StartedSets \/ PostStart \/ Cleanup
Fetch(r) == Answer(r) \/ FetchFailed(r) \/ NotModified(r) \/ Fetched(r)

Next ==
    \/ Launch /\ UNCHANGED engineVars
    \/ UpdatePacks
    \/ ShellGone
    \/ Connect
    \/ Start
    \/ EngineExits
    \/ \E p \in Packs : LoadPack(p) \/ StartWatcher(p) \/ Reload(p)
    \/ \E r \in Remotes : Restore(r) \/ Request(r) \/ Fetch(r)
    \/ \E r \in Remotes, v \in Versions : Publish(r, v)

\* The thread runs on, and a started watcher calls back.
Fairness ==
    /\ WF_vars(UpdatePacks)
    /\ \A p \in Packs : WF_vars(Reload(p))

Spec == Init /\ [][Next]_vars /\ Fairness

-----------------------------------------------------------------------------
(* Properties.                                                             *)

Serving == engine \in {"started", "running"}

TypeOK ==
    /\ PackTypeOK
    /\ engine \in {"off", "new", "start", "postStart", "started", "running"}
    /\ connects \in 0..MaxConnects /\ updates \in 0..MaxUpdates
    /\ \A s \in {named, loaded, watching, pending, missed} : s \subseteq Packs
    /\ rules \in [Packs -> SUBSET ((Base \cup Remote) \ Ua)]
    /\ \A f \in {content, lastEtag, answered} : f \in [Remotes -> Versions \cup {None}]
    /\ upstream \in [Remotes -> Versions]
    /\ saved \in [Remotes -> [version : Versions \cup {None}, etag : Versions \cup {None}]]
    /\ referenced \subseteq Used /\ untagged \subseteq Remotes /\ caching \in BOOLEAN
    /\ copy \in [Remotes -> {"last", "older", "restored"}]

\* While the engine serves connections the built-in entries of each pack in its
\* configuration are routed, whatever the download thread is writing, and
\* however often the watcher finds half a file.
BaseAlwaysRouted ==
    Serving => \A p \in named \cap Used : Base \ Ua \subseteq rules[p]

\* The rules of a remote set are the version its server last delivered or
\* confirmed in any life of the engine, through failed fetches, pages that are
\* no rule set and restarts from the cache file - but for two things the code
\* (rule_set_remote.go, fetch and StartContext) lets happen: an engine that
\* starts on a cache whose last save had failed has an older version until the
\* server answers it; and where the server has left out a tag, the tag of an
\* earlier version may be held, and what is out of step is that version
\* confirmed.
RemoteMatchesAnswer ==
    \A r \in Remotes : content[r] # None =>
        \/ content[r] = answered[r]
        \/ copy[r] = "restored"
        \/ r \in untagged /\ lastEtag[r] = answered[r]

Stale(p) ==
    /\ Serving /\ p \in watching \cap Used
    /\ disk[p].state = "whole" /\ rules[p] # disk[p].list

Fresh(p) == ~Serving \/ disk[p].state # "whole" \/ rules[p] = disk[p].list

\* The engine comes to use the list on disk while it runs, unless the thread
\* saved it between the engine's first reading of the file and the start of its
\* watcher.
RulesCatchUp == \A p \in Packs : (Stale(p) /\ p \notin missed) ~> Fresh(p)

\* "Will be automatically reloaded if file modified" (docs/configuration/
\* rule-set/index.md): the code loses a change made in that window.
ReloadedWhenModified == \A p \in Packs : Stale(p) ~> Fresh(p)
=============================================================================
