------------------------- MODULE MapSnapshotsProofs -------------------------
(***************************************************************************)
(* The published manifest always names a file that exists (snapshot.go),   *)
(* through failed generations, crashes and removals that fail, for any     *)
(* number of keys, publishes and seconds.                                  *)
(***************************************************************************)
EXTENDS MapSnapshots, FiniteSetTheorems, TLAPS

\* Of no file there are two newer ones if none is newer (pruneOld).
LEMMA NewestStays ==
    ASSUME NEW m, \A t \in Existing : ~(t > m)
    PROVE  ~(Cardinality({t \in Existing : t > m}) >= 2)
<1>1. {t \in Existing : t > m} = {}
  OBVIOUS
<1>2. QED BY <1>1, FS_EmptySet

\* Every step of the mirror and of its process keeps the types of both
\* (importer.go).
LEMMA DirTypes == DirTypeOK /\ [DirNext]_dirVars => DirTypeOK'
<1> SUFFICES ASSUME DirTypeOK, [DirNext]_dirVars PROVE DirTypeOK'
  OBVIOUS
<1> USE DirBoundsAssumption, NoEntryAssumption DEF DirTypeOK
<1> DEFINE Records == [AnyKey -> Entry \cup {NoEntry}]
<1>0. /\ upstream \in Records /\ records \in Records /\ fetched \in Records /\ mirror \in Records
      /\ NoEntries \in Records
  BY DEF NoEntries
<1>1. CASE Fetch
  BY <1>0, <1>1 DEF Fetch
<1>2. CASE Replace
  BY <1>0, <1>2 DEF Replace
<1>3. CASE SaveImportedNodes
  <2>1. UpsertedNodes \in Records
    BY <1>0 DEF UpsertedNodes
  <2>2. QED BY <1>0, <1>3, <2>1 DEF SaveImportedNodes
<1>4. CASE SaveImportedNodeHistory
  <2>1. ASSUME NEW k \in AnyKey, Stored(k)
        PROVE  [publishes[k] EXCEPT ![fetched[k].sig] = fetched[k].advert] \in [Publish -> Nat \cup {NoEntry}]
    <3>1. fetched[k] \in Entry
      BY <1>0, <2>1 DEF Stored
    <3>2. fetched[k].sig \in Publish /\ fetched[k].advert \in Nat
      BY <3>1 DEF Entry
    <3>3. publishes[k] \in [Publish -> Nat \cup {NoEntry}]
      OBVIOUS
    <3>4. QED BY <3>2, <3>3
  <2>2. UpsertedHistory \in [AnyKey -> [Publish -> Nat \cup {NoEntry}]]
    BY <2>1 DEF UpsertedHistory
  <2>3. QED BY <1>0, <1>4, <2>2 DEF SaveImportedNodeHistory
<1>5. CASE SyncFails
  BY <1>0, <1>5 DEF SyncFails
<1>6. CASE DirStart
  BY <1>0, <1>6 DEF DirStart
<1>7. CASE DirCrash
  <2>1. restarts' \in 0..MaxRestarts
    BY <1>7 DEF DirCrash
  <2>2. {upstream', records', fetched', mirror'} \subseteq Records
    BY <1>0, <1>7 DEF DirCrash
  <2>3. QED BY <1>7, <2>1, <2>2 DEF DirCrash
<1>8. ASSUME NEW k \in AnyKey, Edit(k) PROVE DirTypeOK'
  <2>1. edits \in Nat /\ edits' \in 0..MaxEdits
    BY <1>8 DEF Edit
  <2>2. upstream' \in Records
    <3>1. CASE \E p \in Publish : upstream' = [upstream EXCEPT ![k] = [sig |-> p, advert |-> edits]]
      BY <1>0, <2>1, <3>1 DEF Entry
    <3>2. CASE upstream[k] # NoEntry /\ upstream' = [upstream EXCEPT ![k].advert = edits]
      <4>1. upstream[k] \in Entry
        BY <1>0, <3>2
      <4>2. [upstream[k] EXCEPT !.advert = edits] \in Entry
        BY <2>1, <4>1 DEF Entry
      <4>3. QED BY <1>0, <3>2, <4>2
    <3>3. CASE upstream' = [upstream EXCEPT ![k] = NoEntry]
      BY <1>0, <3>3
    <3>4. QED BY <1>8, <3>1, <3>2, <3>3 DEF Edit
  <2>3. QED BY <1>0, <1>8, <2>1, <2>2 DEF Edit
<1>9. CASE UNCHANGED dirVars
  BY <1>0, <1>9 DEF dirVars
<1>10. QED BY <1>1, <1>2, <1>3, <1>4, <1>5, <1>6, <1>7, <1>8, <1>9 DEF DirNext, Sync

\* So is what every step of the snapshotter leaves (snapshot.go).
LEMMA MapTypes == MapTypeOK /\ [MapNext]_mapVars => MapTypeOK'
<1> SUFFICES ASSUME MapTypeOK, [MapNext]_mapVars PROVE MapTypeOK'
  OBVIOUS
<1> USE SnapBoundsAssumption
<1>0. /\ DirTypeOK /\ live \in [DirKey -> LiveState] /\ second \in Second
      /\ files \in [Second -> [DirKey -> Shown] \cup {NoContent}] /\ taken \in [DirKey -> Shown]
      /\ manifest \in Second \cup {NoFile} /\ name \in Second
      /\ snapper \in {"idle", "reading", "writing", "publishing", "pruning", "removing"}
      /\ doomed \subseteq Second /\ changes \in 0..MaxChanges
  BY DEF MapTypeOK
<1>1. 0 \in Second /\ NoMap \in [DirKey -> Shown] /\ Existing \subseteq Second
  BY DEF Second, NoMap, Shown, Existing
<1>2. [DirNext]_dirVars /\ UNCHANGED snapVars => MapTypeOK'
  BY <1>0, DirTypes DEF MapTypeOK, snapVars
<1>3. ASSUME UNCHANGED dirVars PROVE DirTypeOK'
  BY <1>0, <1>3, DirTypes
<1>4. CASE Begin /\ UNCHANGED dirVars
  <2>1. \A k \in DirKey : records[k] \in Shown
    BY <1>0 DEF DirTypeOK, AnyKey, Shown
  <2>2. taken' \in [DirKey -> Shown]
    BY <1>4, <2>1 DEF Begin
  <2>3. QED BY <1>0, <1>3, <1>4, <2>2 DEF Begin, MapTypeOK
<1>5. CASE CollectNodes /\ UNCHANGED dirVars
  <2>1. Collected(taken, live) \in [DirKey -> Shown]
    BY <1>0 DEF Collected, Shown
  <2>2. QED BY <1>0, <1>3, <1>5, <2>1 DEF CollectNodes, MapTypeOK
<1>6. CASE WriteSnapshot /\ UNCHANGED dirVars
  BY <1>0, <1>1, <1>3, <1>6 DEF WriteSnapshot, MapTypeOK
<1>7. CASE PublishManifest /\ UNCHANGED dirVars
  BY <1>0, <1>1, <1>3, <1>7 DEF PublishManifest, MapTypeOK
<1>8. CASE GenerateFails /\ UNCHANGED dirVars
  BY <1>0, <1>1, <1>3, <1>8 DEF GenerateFails, MapTypeOK
<1>9. CASE ListOld /\ UNCHANGED dirVars
  <2>1. doomed' \subseteq Second /\ snapper' \in {"removing", "idle"}
    BY <1>1, <1>9 DEF ListOld, Outdated
  <2>2. QED BY <1>0, <1>3, <1>9, <2>1 DEF ListOld, MapTypeOK
<1>10. CASE RemoveOld /\ UNCHANGED dirVars
  <2>1. /\ files' \in [Second -> [DirKey -> Shown] \cup {NoContent}]
        /\ doomed' \subseteq Second /\ snapper' \in {snapper, "idle"}
    BY <1>0, <1>10 DEF RemoveOld
  <2>2. QED BY <1>0, <1>3, <1>10, <2>1 DEF RemoveOld, MapTypeOK
<1>11. ASSUME NEW k \in DirKey, Hear(k), UNCHANGED dirVars PROVE MapTypeOK'
  <2>1. changes' \in 0..MaxChanges /\ live' \in [DirKey -> LiveState]
    BY <1>0, <1>11 DEF Hear
  <2>2. QED BY <1>0, <1>3, <1>11, <2>1 DEF Hear, MapTypeOK
<1>12. CASE SecondPasses /\ UNCHANGED dirVars
  <2>1. second' \in Second
    BY <1>0, <1>12 DEF SecondPasses, Second
  <2>2. QED BY <1>0, <1>3, <1>12, <2>1 DEF SecondPasses, MapTypeOK
<1>13. CASE DirCrash /\ SnapperDies
  <2>1. DirTypeOK'
    BY <1>0, <1>13, DirTypes DEF DirNext
  <2>2. live' \in [DirKey -> LiveState]
    BY <1>0, <1>13 DEF SnapperDies, LiveState
  <2>3. QED BY <1>0, <1>1, <1>13, <2>1, <2>2 DEF SnapperDies, MapTypeOK
<1>14. CASE UNCHANGED mapVars
  BY <1>2, <1>14 DEF mapVars
<1>15. QED
  BY <1>2, <1>4, <1>5, <1>6, <1>7, <1>8, <1>9, <1>10, <1>11, <1>12, <1>13, <1>14
     DEF MapNext, GenerateOnce, DirNext

\* What removing an old file leaves, and that it was not the manifest's
\* (pruneOld).
LEMMA RemovalStep ==
    ASSUME SnapInv, RemoveOld
    PROVE  /\ Existing' \subseteq Existing
           /\ ManifestResolves'
           /\ snapper' = "removing" => \A s \in doomed' : Cardinality({t \in Existing' : t > s}) >= 2
           /\ \A s \in Second : files[s] # NoContent /\ files'[s] = NoContent =>
                  Cardinality({t \in Existing : t > s}) >= 2
<1> USE DEF Existing
<1>1. /\ MapTypeOK /\ ManifestResolves /\ manifest # NoFile
      /\ \A s \in Existing : s <= manifest
      /\ \A s \in doomed : Cardinality({t \in Existing : t > s}) >= 2
      /\ files \in [Second -> [DirKey -> Shown] \cup {NoContent}]
      /\ manifest \in Second /\ doomed \subseteq Second /\ Second \subseteq Nat
      /\ manifest' = manifest
  BY DEF SnapInv, MapTypeOK, RemoveOld, Second
<1>2. CASE doomed = {}
  BY <1>1, <1>2 DEF RemoveOld, ManifestResolves
<1>3. CASE doomed # {}
  <2>1. PICK oldest \in doomed : /\ \A s \in doomed : oldest <= s
                                 /\ doomed' = doomed \ {oldest}
                                 /\ files' \in {files, [files EXCEPT ![oldest] = NoContent]}
    BY <1>3 DEF RemoveOld
  <2>2. /\ \A s \in Second : s # oldest => files'[s] = files[s]
        /\ Existing' \subseteq Existing
    BY <1>1, <2>1
  <2>3. oldest # manifest
    <3>1. \A t \in Existing : ~(t > manifest)
      BY <1>1
    <3>2. QED BY <1>1, <2>1, <3>1, NewestStays
  <2>4. ASSUME NEW s \in doomed' PROVE {t \in Existing' : t > s} = {t \in Existing : t > s}
    <3>1. s \in Nat /\ oldest \in Nat /\ oldest <= s
      BY <1>1, <2>1
    <3>2. \A t \in Second : t > s => t \in Nat /\ t # oldest
      BY <1>1, <3>1
    <3>3. \A t \in Second : t > s => (t \in Existing' <=> t \in Existing)
      BY <2>2, <3>2
    <3>4. QED BY <3>3
  <2>5. ManifestResolves'
    BY <1>1, <2>2, <2>3 DEF ManifestResolves
  <2>6. \A s \in doomed' : Cardinality({t \in Existing' : t > s}) >= 2
    BY <1>1, <2>1, <2>4
  <2>7. \A s \in Second : files[s] # NoContent /\ files'[s] = NoContent =>
            Cardinality({t \in Existing : t > s}) >= 2
    BY <1>1, <2>1, <2>2
  <2>8. QED BY <2>2, <2>5, <2>6, <2>7
<1>4. QED BY <1>2, <1>3

\* One step of the snapshotter, or beside it, keeps the invariant and removes
\* only files with two newer ones (snapshot.go).
LEMMA SnapStep ==
    ASSUME SnapInv, [MapNext]_mapVars
    PROVE  /\ SnapInv'
           /\ \A s \in Second : files[s] # NoContent /\ files'[s] = NoContent =>
                  Cardinality({t \in Existing : t > s}) >= 2
<1> DEFINE Removes == \A s \in Second : files[s] # NoContent /\ files'[s] = NoContent =>
                          Cardinality({t \in Existing : t > s}) >= 2
<1>0. MapTypeOK /\ MapTypeOK'
  BY MapTypes DEF SnapInv
<1>1. /\ files \in [Second -> [DirKey -> Shown] \cup {NoContent}] /\ taken \in [DirKey -> Shown]
      /\ second \in Nat /\ name \in Nat /\ name \in Second /\ Second \subseteq Nat
      /\ manifest \in Second \cup {NoFile} /\ NoFile \notin Second /\ 0 \in Second
  BY <1>0, SnapBoundsAssumption DEF MapTypeOK, Second, NoFile
<1>2. CASE UNCHANGED snapVars
  BY <1>0, <1>2 DEF snapVars, SnapInv, ManifestResolves, Existing
<1>3. CASE Begin
  BY <1>0, <1>1, <1>3 DEF Begin, SnapInv, ManifestResolves, Existing
<1>4. CASE CollectNodes
  BY <1>0, <1>1, <1>4 DEF CollectNodes, SnapInv, ManifestResolves, Existing
<1>5. CASE WriteSnapshot
  <2>1. /\ files'[name] # NoContent /\ \A s \in Second : s # name => files'[s] = files[s]
        /\ \A s \in Existing' : s = name \/ s \in Existing
    BY <1>1, <1>5, NoContentAssumption DEF WriteSnapshot, Existing
  <2>2. ManifestResolves' /\ Removes
    BY <1>1, <1>5, <2>1 DEF WriteSnapshot, SnapInv, ManifestResolves
  <2>3. /\ name' <= second' /\ \A s \in Existing' : s <= second' /\ s <= name'
        /\ snapper' = "publishing"
    BY <1>1, <1>5, <2>1 DEF WriteSnapshot, SnapInv
  <2>4. files'[name'] # NoContent
    BY <1>5, <2>1 DEF WriteSnapshot
  <2>5. QED BY <1>0, <2>2, <2>3, <2>4 DEF SnapInv
<1>6. CASE PublishManifest
  BY <1>0, <1>1, <1>6 DEF PublishManifest, SnapInv, ManifestResolves, Existing
<1>7. CASE GenerateFails
  BY <1>0, <1>1, <1>7 DEF GenerateFails, SnapInv, ManifestResolves, Existing
<1>8. CASE ListOld
  BY <1>0, <1>1, <1>8 DEF ListOld, Outdated, SnapInv, ManifestResolves, Existing
<1>9. CASE RemoveOld
  <2>1. /\ snapper = "removing" /\ snapper' \in {"removing", "idle"}
        /\ UNCHANGED <<second, manifest, name>>
    BY <1>9 DEF RemoveOld
  <2>2. QED BY <1>0, <1>9, <2>1, RemovalStep DEF SnapInv
<1>10. CASE \E k \in DirKey : Hear(k)
  BY <1>0, <1>1, <1>10 DEF Hear, SnapInv, ManifestResolves, Existing
<1>11. CASE SecondPasses
  BY <1>0, <1>1, <1>11 DEF SecondPasses, SnapInv, ManifestResolves, Existing
<1>12. CASE SnapperDies
  BY <1>0, <1>1, <1>12 DEF SnapperDies, SnapInv, ManifestResolves, Existing
<1>13. QED
  BY <1>2, <1>3, <1>4, <1>5, <1>6, <1>7, <1>8, <1>9, <1>10, <1>11, <1>12
     DEF MapNext, GenerateOnce, mapVars

\* The process starts with no file and no manifest (snapshot.go).
LEMMA SnapInit == MapInit => SnapInv
<1> SUFFICES ASSUME MapInit PROVE SnapInv
  OBVIOUS
<1> USE SnapBoundsAssumption, DirBoundsAssumption
<1>1. DirTypeOK
  <2>1. NoEntries \in [AnyKey -> Entry \cup {NoEntry}]
    BY DEF NoEntries
  <2>2. NoPublishes \in [AnyKey -> [Publish -> Nat \cup {NoEntry}]]
    BY DEF NoPublishes
  <2>3. 0 \in 0..MaxEdits /\ 0 \in 0..MaxRestarts
    OBVIOUS
  <2>4. QED BY <2>1, <2>2, <2>3 DEF MapInit, DirInit, DirTypeOK
<1>2. MapTypeOK
  BY <1>1 DEF MapInit, MapTypeOK, Second, NoMap, Shown, LiveState
<1>3. Existing = {}
  BY DEF MapInit, Existing
<1>4. QED BY <1>2, <1>3 DEF MapInit, SnapInv, ManifestResolves, NoFile, Second

\* Types and what is known of names, files and the manifest hold in every
\* reachable state, whatever fails (snapshot.go, generateOnce and pruneOld).
THEOREM Invariance == MapSpec => []SnapInv
<1>1. SnapInv /\ [MapNext]_mapVars => SnapInv'
  BY SnapStep
<1>2. QED BY SnapInit, <1>1, PTL DEF MapSpec

\* The file the manifest names exists at all times, and a file is removed only
\* while two newer ones exist (snapshot.go:257-282).
THEOREM Resolves == MapSpec => SnapshotsResolve
<1> DEFINE Kept == \A s \in Second : files[s] # NoContent /\ files'[s] = NoContent =>
                       Cardinality({t \in Existing : t > s}) >= 2
<1>1. SnapInv => ManifestResolves
  BY DEF SnapInv
<1>2. SnapInv /\ [MapNext]_mapVars => [Kept]_mapVars
  BY SnapStep
<1>3. QED BY Invariance, <1>1, <1>2, PTL DEF MapSpec, SnapshotsResolve

=============================================================================
