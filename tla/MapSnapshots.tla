---------------------------- MODULE MapSnapshots ----------------------------
(***************************************************************************)
(* The map snapshots (snapshot.go): one goroutine reads the directory,     *)
(* then the live nodes, merges them, writes a file named by the second,    *)
(* publishes a manifest that names it, and removes old files one by one.   *)
(* The file system outlives the process and any of its calls may fail.     *)
(***************************************************************************)
EXTENDS Directory, FiniteSets

CONSTANTS
    Placed,       \* publishes whose coordinates are valid
    LiveNode,     \* a node the map shows as live
    NoContent,    \* a file that does not exist
    MaxSeconds,   \* bound: seconds of the clock
    MaxChanges    \* bound: changes of the live registry

ASSUME PlacedAssumption == Placed \subseteq Publish
ASSUME SnapBoundsAssumption == MaxSeconds \in Nat /\ MaxChanges \in Nat

Second == 0..MaxSeconds
NoFile == MaxSeconds + 1

\* What collectNodes tells apart in a live node.
LiveState == {"unheard", "unplaced", "placed", "flagged"}

\* A node on the map is live, or a directory entry, or not there.
Shown == Entry \cup {NoEntry, LiveNode}
ASSUME LiveNodeAssumption == LiveNode \notin Entry \cup {NoEntry}
ASSUME NoContentAssumption == NoContent \notin [DirKey -> Shown]

VARIABLES
    live,      \* NodeRegistry: key -> LiveState
    second,    \* the clock, which does not step back
    files,     \* the directory of snapshots: second -> what is on the map
    manifest,  \* latest.json: the file it names, or NoFile
    snapper,   \* generateOnce: "idle", "reading", "writing", "publishing", "pruning"
    name,      \* ts, the name of the file it makes
    taken,     \* the records it read, then the map it collected
    doomed,    \* snaps[:len(snaps)-2], not removed yet
    changes    \* changes of the live registry so far

snapVars == <<live, second, files, manifest, snapper, name, taken, doomed, changes>>
mapVars == <<dirVars, snapVars>>

NoMap == [k \in DirKey |-> NoEntry]

MapInit ==
    /\ DirInit
    /\ live = [k \in DirKey |-> "unheard"]
    /\ second = 0
    /\ files = [s \in Second |-> NoContent]
    /\ manifest = NoFile
    /\ snapper = "idle"
    /\ name = 0
    /\ taken = NoMap
    /\ doomed = {}
    /\ changes = 0

-----------------------------------------------------------------------------
(* generateOnce.                                                           *)

Existing == {s \in Second : files[s] # NoContent}

\* collectNodes: a live node with coordinates hides the directory's entry even
\* when its flags keep it off the map.
Collected(recs, nodes) ==
    [k \in DirKey |->
        CASE nodes[k] = "placed"  -> LiveNode
          [] nodes[k] = "flagged" -> NoEntry
          [] OTHER -> IF recs[k] # NoEntry /\ recs[k].sig \in Placed THEN recs[k] ELSE NoEntry]

\* The name is taken first, then the records.
Begin ==
    /\ dirUp
    /\ snapper = "idle"
    /\ snapper' = "reading"
    /\ name' = second
    /\ taken' = [k \in DirKey |-> records[k]]
    /\ UNCHANGED <<live, second, files, manifest, doomed, changes>>

CollectNodes ==
    /\ snapper = "reading"
    /\ snapper' = "writing"
    /\ taken' = Collected(taken, live)
    /\ UNCHANGED <<live, second, files, manifest, name, doomed, changes>>

\* The rename makes the whole file appear at once.
WriteSnapshot ==
    /\ snapper = "writing"
    /\ files' = [files EXCEPT ![name] = taken]
    /\ taken' = NoMap
    /\ snapper' = "publishing"
    /\ UNCHANGED <<live, second, manifest, name, doomed, changes>>

\* pruneOld is given the name and ignores it.
PublishManifest ==
    /\ snapper = "publishing"
    /\ manifest' = name
    /\ snapper' = "pruning"
    /\ name' = 0
    /\ UNCHANGED <<live, second, files, taken, doomed, changes>>

\* Mutant of GenerateFails: the loop returns the error.
GenerateFailsForGood ==
    /\ snapper \in {"writing", "publishing"}
    /\ snapper' = "stopped"
    /\ name' = 0
    /\ taken' = NoMap
    /\ UNCHANGED <<live, second, files, manifest, doomed, changes>>

\* Either step may fail, and then nothing is pruned.
GenerateFails ==
    /\ snapper \in {"writing", "publishing"}
    /\ snapper' = "idle"
    /\ name' = 0
    /\ taken' = NoMap
    /\ UNCHANGED <<live, second, files, manifest, doomed, changes>>

\* Mutant of Outdated: the one most recent stays.
OutdatedButOne == {s \in Existing : Cardinality({t \in Existing : t > s}) >= 1}

\* The two most recent by name stay.
Outdated == {s \in Existing : Cardinality({t \in Existing : t > s}) >= 2}

\* pruneOld: the directory is listed, or cannot be.
ListOld ==
    /\ snapper = "pruning"
    /\ \/ doomed' = Outdated /\ snapper' = "removing"
       \/ doomed' = {} /\ snapper' = "idle"
    /\ UNCHANGED <<live, second, files, manifest, name, taken, changes>>

\* os.Remove, in the order of the names, each of which may fail alone.
RemoveOld ==
    /\ snapper = "removing"
    /\ \/ doomed = {} /\ snapper' = "idle" /\ UNCHANGED <<files, doomed>>
       \/ \E oldest \in doomed :
              /\ \A s \in doomed : oldest <= s
              /\ doomed' = doomed \ {oldest}
              /\ files' \in {files, [files EXCEPT ![oldest] = NoContent]}
              /\ UNCHANGED snapper
    /\ UNCHANGED <<live, second, manifest, name, taken, changes>>

GenerateOnce ==
    \/ Begin \/ CollectNodes \/ WriteSnapshot \/ PublishManifest \/ GenerateFails
    \/ ListOld \/ RemoveOld

-----------------------------------------------------------------------------
(* The rest of the system.                                                 *)

\* An advert, a scan of the flagger, or a restore changes what is live.
Hear(k) ==
    /\ dirUp
    /\ changes < MaxChanges
    /\ changes' = changes + 1
    /\ \E s \in LiveState \ {live[k], "unheard"} : live' = [live EXCEPT ![k] = s]
    /\ UNCHANGED <<second, files, manifest, snapper, name, taken, doomed>>

SecondPasses ==
    /\ second < MaxSeconds
    /\ second' = second + 1
    /\ UNCHANGED <<live, files, manifest, snapper, name, taken, doomed, changes>>

\* The files and the manifest survive; live nodes come back as they were or,
\* when their table cannot be read, not at all.
SnapperDies ==
    /\ snapper' = "idle"
    /\ doomed' = {}
    /\ name' = 0
    /\ taken' = NoMap
    /\ live' \in {live, [k \in DirKey |-> "unheard"]}
    /\ UNCHANGED <<second, files, manifest, changes>>

MapNext ==
    \/ (Sync \/ DirStart \/ \E k \in AnyKey : Edit(k)) /\ UNCHANGED snapVars
    \/ DirCrash /\ SnapperDies
    \/ (GenerateOnce \/ SecondPasses \/ \E k \in DirKey : Hear(k)) /\ UNCHANGED dirVars

\* The ticker keeps generating, time passes, and a call that can be repeated
\* succeeds some time.
GenerateForever == GenerateOnce /\ UNCHANGED dirVars
MapFairness ==
    /\ WF_mapVars(DirStart /\ UNCHANGED snapVars)
    /\ WF_mapVars(Sync /\ UNCHANGED snapVars)
    /\ WF_mapVars(SecondPasses /\ UNCHANGED dirVars)
    /\ WF_mapVars(GenerateForever)
    /\ SF_mapVars(WriteSnapshot /\ UNCHANGED dirVars)
    /\ SF_mapVars(PublishManifest /\ UNCHANGED dirVars)

MapSpec == MapInit /\ [][MapNext]_mapVars /\ MapFairness

-----------------------------------------------------------------------------
(* Properties.                                                             *)

MapTypeOK ==
    /\ DirTypeOK
    /\ live \in [DirKey -> LiveState]
    /\ second \in Second
    /\ files \in [Second -> [DirKey -> Shown] \cup {NoContent}]
    /\ taken \in [DirKey -> Shown]
    /\ manifest \in Second \cup {NoFile}
    /\ snapper \in {"idle", "reading", "writing", "publishing", "pruning", "removing"}
    /\ name \in Second
    /\ doomed \subseteq Second
    /\ changes \in 0..MaxChanges

ManifestResolves == manifest # NoFile => files[manifest] # NoContent

\* The file the manifest names exists, through failed generations, crashes
\* and removals that fail, and a file goes only when two newer ones exist
\* (snapshot.go:257-282: "preserving current (just written) and its
\* predecessor").
SnapshotsResolve ==
    /\ []ManifestResolves
    /\ [][\A s \in Second : files[s] # NoContent /\ files'[s] = NoContent =>
             Cardinality({t \in Existing : t > s}) >= 2]_mapVars

\* The inductive invariant behind SnapshotsResolve: no file is named after the
\* future, the file being made is not older than any, the file being published
\* exists, the manifest names the newest while old files go, and those that go
\* have two newer ones.
SnapInv ==
    /\ MapTypeOK
    /\ ManifestResolves
    /\ name <= second
    /\ \A s \in Existing : s <= second
    /\ snapper \in {"reading", "writing", "publishing"} => \A s \in Existing : s <= name
    /\ snapper = "publishing" => files[name] # NoContent
    /\ snapper \in {"pruning", "removing"} =>
           manifest # NoFile /\ \A s \in Existing : s <= manifest
    /\ snapper = "removing" =>
           \A s \in doomed : Cardinality({t \in Existing : t > s}) >= 2

\* What the manifest leads to is the map of the directory and the live nodes.
Current == manifest # NoFile /\ files[manifest] = Collected(records, live)

\* When directory and registry rest, the published map catches up with them,
\* whatever failed on the way (snapshot.go:79-103).
SnapshotsConverge == <>[]Current

=============================================================================
