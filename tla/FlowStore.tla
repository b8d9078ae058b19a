------------------------------ MODULE FlowStore ------------------------------
(* What the console keeps in localStorage (flowStore.ts, and the versions of  *)
(* flow.ts): a catalog of flows, a record per flow, and the list of versions. *)
(* A disk is [records, catalog, versions]; a flow is its id and the text of   *)
(* its content. The catalog is kept newest first, as every save puts its      *)
(* entry in front with the latest updatedAt.                                  *)
(*                                                                            *)
(* A write that does not fit the quota throws. "room" is the number of        *)
(* growing writes that still fit in the call: a save needs two.               *)
EXTENDS Sequences, Integers

CONSTANTS
    SampleId,   \* sampleFlow.id
    NoNodes,    \* the text of a flow without nodes
    SampleText, \* the content of sampleFlow
    Mends,      \* what ensureBrowserDefaults makes of the texts it changes
    VersionCap  \* versions kept, 60 in the code

ASSUME SampleHasNodes == NoNodes # SampleText
ASSUME CapAssumption == VersionCap \in Nat \ {0}

\* A flow without nodes gets a start and an end; the sample lacks nothing; what
\* has been mended needs no mending.
ASSUME MendsAssumption ==
    /\ NoNodes \in DOMAIN Mends /\ SampleText \notin DOMAIN Mends
    /\ \A text \in DOMAIN Mends : Mends[text] \notin DOMAIN Mends

SampleFlow == [id |-> SampleId, text |-> SampleText]
EmptyDisk == [records |-> <<>>, catalog |-> <<>>, versions |-> <<>>]

isRenderableFlow(text) == text # NoNodes

\* normalizeFlowStructure and the browser's variables: a missing start or end,
\* the first edge and doubled ids are put right, edges that lead nowhere go.
ensureBrowserDefaults(flow) ==
    [flow EXCEPT !.text = IF @ \in DOMAIN Mends THEN Mends[@] ELSE @]

listFlows(disk) == disk.catalog

\* The entries of other flows, up to the k-th.
Without(catalog, id) ==
    LET kept[k \in 0 .. Len(catalog)] ==
            IF k = 0 THEN <<>>
            ELSE IF catalog[k] = id THEN kept[k - 1] ELSE Append(kept[k - 1], catalog[k])
    IN  kept[Len(catalog)]

upsertCatalog(catalog, id) == <<id>> \o Without(catalog, id)

WithRecord(records, flow) ==
    [ id \in DOMAIN records \union {flow.id} |->
        IF id = flow.id THEN flow.text ELSE records[id] ]

\* Deviation: the catalog first.
CatalogFirst(disk, flow, room) ==
    [disk EXCEPT
        !.catalog = IF room >= 1 THEN upsertCatalog(@, flow.id) ELSE @,
        !.records = IF room >= 2 THEN WithRecord(@, flow) ELSE @]

\* The record first, then the catalog.
saveFlow(disk, flow, room) ==
    [disk EXCEPT
        !.records = IF room >= 1 THEN WithRecord(@, flow) ELSE @,
        !.catalog = IF room >= 2 THEN upsertCatalog(@, flow.id) ELSE @]
Saves(room) == room >= 2

\* Whether there is a record the editor can show, and its flow.
Loads(disk, id) == id \in DOMAIN disk.records /\ isRenderableFlow(disk.records[id])
loadFlow(disk, id) == [id |-> id, text |-> disk.records[id]]

\* Both writes shrink what is stored: they fit.
deleteFlow(disk, id) ==
    [disk EXCEPT
        !.records = [other \in DOMAIN @ \ {id} |-> @[other]],
        !.catalog = Without(@, id)]

NeedsSeed(disk) == listFlows(disk) = <<>>
ensureSeedFlow(disk, room) == IF NeedsSeed(disk) THEN saveFlow(disk, SampleFlow, room) ELSE disk

\* createFlowDraft: the sample's content under an id of its own.
Draft(id) == [SampleFlow EXCEPT !.id = id]

\* setVersions(prev => [record, ...prev].slice(0, 60)).
AddVersion(versions, flow) ==
    LET longer == <<flow>> \o versions
    IN  IF Len(longer) > VersionCap THEN SubSeq(longer, 1, VersionCap) ELSE longer

saveVersionsToStorage(disk, versions, room) ==
    IF room >= 1 THEN [disk EXCEPT !.versions = versions] ELSE disk
=============================================================================
