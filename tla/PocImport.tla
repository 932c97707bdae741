------------------------------ MODULE PocImport ------------------------------
(***************************************************************************)
(* Import of an external Inferdrome bundle for a frozen performance        *)
(* contract (poc_inferdrome_import.py), over the catalog of the local runs *)
(* root (inferdrome_catalog.py).                                           *)
(*                                                                         *)
(* A start looks its idempotency key up under the lock, resolves the       *)
(* selection in the catalog without it, and takes the lock again to record *)
(* the import; the worker it then launches reads the bundle, writes the    *)
(* evidence pack and only then reports completion.  A written pack is      *)
(* verified by reading its files one after the other.  The runs root, the  *)
(* frozen contract and the written packs change under all of this.         *)
(***************************************************************************)
EXTENDS Naturals, Sequences, FiniteSets

CONSTANTS
    ImportPocs, ImportKeys, ImportCallers,
    Labels,        \* entries of the runs root
    RunIds, Digests,
    PackReaders,   \* calls that verify a pack
    MaxImports,    \* max_imports of the service
    MaxRootSteps,  \* bound on the changes of the runs root
    MaxPackSteps   \* bound on the changes of written packs

VARIABLES
    runsRoot,    \* label -> node
    rootSteps, packSteps,
    frozenAt,    \* POC -> [state, pinned]: its contract for external evidence
    imports,     \* sequence number -> record
    latestOf,    \* POC -> import, 0 for none
    keyed,       \* key -> import, 0 for none
    busy,        \* _active_pocs
    packs,       \* import -> its pack on disk: part -> content
    callers,     \* caller -> what its start holds between its locked blocks
    verifying,   \* reader -> what its verification of a pack holds between its reads
    reply        \* the answer of the step just taken, <<>> if there was none

serviceState == <<imports, latestOf, keyed, busy>>
importDisks == <<runsRoot, rootSteps, packSteps, packs>>
importVars == <<importDisks, frozenAt, serviceState, callers, verifying, reply>>

Selections == RunIds \X Digests
Bundle(run, digest, sound) == [kind |-> "bundle", run |-> run, digest |-> digest, sound |-> sound]
NoBundle(kind) == [kind |-> kind, run |-> CHOOSE r \in RunIds : TRUE,
                   digest |-> CHOOSE d \in Digests : TRUE, sound |-> FALSE]
Nodes == {Bundle(r, d, s) : r \in RunIds, d \in Digests, s \in BOOLEAN}
         \cup {NoBundle("link"), NoBundle("other")}

\* _candidates: bundles, bare or in a workspace; links and the rest are left out.
Candidates(fs) == {l \in Labels : fs[l].kind = "bundle"}

\* refresh: the candidates that verify, unless another one has their run id.
Verified(fs) == {l \in Candidates(fs) : fs[l].sound}
Catalog(fs) == {l \in Verified(fs) : \A k \in Verified(fs) \ {l} : fs[k].run # fs[l].run}

\* resolve, and resolve_reference for the selection a reference stands for.
Resolve(fs, sel) == {l \in Catalog(fs) : <<fs[l].run, fs[l].digest>> = sel}

\* A pack is its manifest and the files the manifest lists: the packet, and one
\* file for the four others, which are treated alike.  The content of a part is
\* the number of the import it was written for, or 0 for anything else; a
\* manifest lists the files of its own number.
PackFiles == {"packet", "facts"}
PackParts == PackFiles \cup {"manifest"}
AsWritten(i) == {q \in PackParts : packs[i][q] = i}

PocImportInit ==
    /\ runsRoot \in [Labels -> {n \in Nodes : n.sound \/ n.kind = "other"}]
    /\ rootSteps = 0
    /\ packSteps = 0
    /\ frozenAt = [p \in ImportPocs |-> [state |-> "none", pinned |-> {}]]
    /\ imports = <<>>
    /\ latestOf = [p \in ImportPocs |-> 0]
    /\ keyed = [k \in ImportKeys |-> 0]
    /\ busy = {}
    /\ packs = <<>>
    /\ callers = [c \in ImportCallers |-> <<>>]
    /\ verifying = [v \in PackReaders |-> <<>>]
    /\ reply = <<>>

\* The lifecycle freezes a contract of a POC once; no revision starts from a
\* frozen one.  A managed contract names a run, which was in the catalog when the
\* contract was prepared.
FreezeExternal(p) ==
    /\ frozenAt[p].state = "none"
    /\ \E pinned \in {{}} \cup {{sel} : sel \in Selections} :
         frozenAt' = [frozenAt EXCEPT ![p] = [state |-> "frozen", pinned |-> pinned]]
    /\ reply' = <<>>
    /\ UNCHANGED <<importDisks, serviceState, callers, verifying>>

\* The proposals or the draft it was prepared from are others: the lifecycle
\* gives it out no more.
LapseExternal(p) ==
    /\ frozenAt[p].state = "frozen"
    /\ frozenAt' = [frozenAt EXCEPT ![p].state = "lapsed"]
    /\ reply' = <<>>
    /\ UNCHANGED <<importDisks, serviceState, callers, verifying>>

ChangeRoot(l, node) ==
    /\ rootSteps < MaxRootSteps
    /\ rootSteps' = rootSteps + 1
    /\ runsRoot' = [runsRoot EXCEPT ![l] = node]
    /\ reply' = <<>>
    /\ UNCHANGED <<packSteps, packs, frozenAt, serviceState, callers, verifying>>

Fingerprint(p, frozen, sel) == <<p, frozen.pinned, sel>>
ImportAnswer(kind, i) == <<[kind |-> kind, import |-> i]>>
Refuse(kind) == reply' = ImportAnswer(kind, 0) /\ UNCHANGED serviceState

\* start, up to the end of its first locked block.
StartLookup(c, p, sel, key) ==
    /\ callers[c] = <<>>
    /\ LET frozen == frozenAt[p]
           fp == Fingerprint(p, frozen, sel)
           known == keyed[key]
       IN IF frozen.state # "frozen" \/ (frozen.pinned # {} /\ sel \notin frozen.pinned)
          THEN Refuse("conflict") /\ UNCHANGED callers
          ELSE IF known # 0
          THEN /\ IF imports[known].fp = fp THEN reply' = ImportAnswer("replayed", known) ELSE reply' = ImportAnswer("conflict", 0)
               /\ UNCHANGED <<serviceState, callers>>
          ELSE /\ callers' = [callers EXCEPT ![c] = <<[poc |-> p, fp |-> fp, sel |-> sel, key |-> key, at |-> {}, import |-> 0]>>]
               /\ reply' = <<>>
               /\ UNCHANGED serviceState
    /\ UNCHANGED <<importDisks, frozenAt, verifying>>

\* The catalog is refreshed under its own lock only.
StartResolve(c) ==
    /\ callers[c] # <<>>
    /\ callers[c][1].at = {}
    /\ LET found == Resolve(runsRoot, callers[c][1].sel) IN
       IF found = {}
       THEN Refuse("not_found") /\ callers' = [callers EXCEPT ![c] = <<>>]
       ELSE /\ callers' = [callers EXCEPT ![c][1].at = found]
            /\ reply' = <<>>
            /\ UNCHANGED serviceState
    /\ UNCHANGED <<importDisks, frozenAt, verifying>>

Record(held) ==
    [poc |-> held.poc, fp |-> held.fp, sel |-> held.sel, key |-> held.key, at |-> held.at,
     status |-> "IMPORTING", result |-> {}, manifest |-> 0, launched |-> FALSE]

Admissible(held) == held.poc \notin busy /\ Len(imports) < MaxImports

\* start, its second locked block
StartAdmit(c) ==
    /\ callers[c] # <<>>
    /\ callers[c][1].at # {}
    /\ callers[c][1].import = 0
    /\ LET held == callers[c][1]
           i == Len(imports) + 1
       IN IF ~Admissible(held)
          THEN Refuse("refused") /\ callers' = [callers EXCEPT ![c] = <<>>]
          ELSE /\ imports' = Append(imports, Record(held))
               /\ latestOf' = [latestOf EXCEPT ![held.poc] = i]
               /\ keyed' = [keyed EXCEPT ![held.key] = i]
               /\ busy' = busy \cup {held.poc}
               /\ callers' = [callers EXCEPT ![c][1].import = i]
               /\ reply' = <<>>
    /\ UNCHANGED <<importDisks, frozenAt, verifying>>

Settle(i, status) ==
    /\ imports' = [imports EXCEPT ![i].status = status]
    /\ busy' = busy \ {imports[i].poc}

\* start, the launch of the worker; the import fails when there is none.
StartLaunch(c, launched) ==
    /\ callers[c] # <<>>
    /\ callers[c][1].import # 0
    /\ LET i == callers[c][1].import IN
       IF launched
       THEN /\ imports' = [imports EXCEPT ![i].launched = TRUE]
            /\ UNCHANGED busy
            /\ reply' = ImportAnswer("started", i)
       ELSE /\ Settle(i, "FAILED_CLOSED")
            /\ reply' = ImportAnswer("error", i)
    /\ callers' = [callers EXCEPT ![c] = <<>>]
    /\ UNCHANGED <<importDisks, frozenAt, latestOf, keyed, verifying>>

Running(i) == i \in DOMAIN imports /\ imports[i].status = "IMPORTING"

\* The worker of a running import is at work.
AtImport(i) == Running(i) /\ imports[i].launched

\* _import: the bundle at the resolved path is read again and must have the
\* selected digest; a rejection ends the import, and so does any failure.
ImportBundle(i, works) ==
    /\ AtImport(i)
    /\ imports[i].result = {}
    /\ \E l \in imports[i].at :
         LET node == runsRoot[l] IN
         IF ~works THEN Settle(i, "FAILED_CLOSED")
         ELSE IF node.kind = "bundle" /\ node.sound /\ <<node.run, node.digest>> = imports[i].sel
         THEN /\ imports' = [imports EXCEPT ![i].result = {<<node.run, node.digest>>}]
              /\ UNCHANGED busy
         ELSE Settle(i, "INGESTION_REJECTED")
    /\ reply' = <<>>
    /\ UNCHANGED <<importDisks, frozenAt, latestOf, keyed, callers, verifying>>

\* _write_evidence_pack: staged and renamed as a whole; a failure removes the stage.
WritePack(i, works) ==
    /\ AtImport(i)
    /\ imports[i].result # {}
    /\ i \notin DOMAIN packs
    /\ IF works
       THEN /\ packs' = [j \in DOMAIN packs \cup {i} |->
                           IF j = i THEN [q \in PackParts |-> i] ELSE packs[j]]
            /\ UNCHANGED <<imports, busy>>
       ELSE Settle(i, "FAILED_CLOSED") /\ UNCHANGED packs
    /\ reply' = <<>>
    /\ UNCHANGED <<runsRoot, rootSteps, packSteps, frozenAt, latestOf, keyed, callers, verifying>>

CompleteImport(i) ==
    /\ AtImport(i)
    /\ i \in DOMAIN packs
    /\ imports' = [imports EXCEPT ![i].status = "COMPLETED", ![i].manifest = i]
    /\ busy' = busy \ {imports[i].poc}
    /\ reply' = <<>>
    /\ UNCHANGED <<importDisks, frozenAt, latestOf, keyed, callers, verifying>>

\* Parts of a pack on disk are exchanged, or put back.  ("intact" is history.)
ChangePack(i, parts, content) ==
    /\ i \in DOMAIN packs
    /\ packSteps < MaxPackSteps
    /\ packSteps' = packSteps + 1
    /\ packs' = [packs EXCEPT ![i] = [q \in PackParts |-> IF q \in parts THEN content ELSE @[q]]]
    /\ verifying' = [v \in PackReaders |->
                       IF verifying[v] # <<>> /\ verifying[v][1].import = i
                       THEN <<[verifying[v][1] EXCEPT !.intact = @ \cup AsWritten(i)']>>
                       ELSE verifying[v]]
    /\ reply' = <<>>
    /\ UNCHANGED <<runsRoot, rootSteps, frozenAt, serviceState, callers>>

\* snapshot: the latest import, unless the frozen contract is another by now.
ImportSnapshot(p) ==
    /\ frozenAt[p].state = "frozen"
    /\ LET i == latestOf[p] IN
       reply' = IF i # 0 /\ imports[i].fp = Fingerprint(p, frozenAt[p], imports[i].sel)
                THEN ImportAnswer("latest", i) ELSE ImportAnswer("empty", 0)
    /\ UNCHANGED <<importDisks, frozenAt, serviceState, callers, verifying>>

\* completed_snapshots
CompletedSnapshots(p) == {i \in DOMAIN imports : imports[i].poc = p /\ imports[i].status = "COMPLETED"}

Withheld(v) ==
    /\ verifying' = [verifying EXCEPT ![v] = <<>>]
    /\ reply' = ImportAnswer("conflict", 0)

\* verified_evidence_pack_sha256, its locked copy of the record.  ("intact" is
\* history: the parts that have been as written at some time since.)
VerifyBegin(v, p, i) ==
    /\ verifying[v] = <<>>
    /\ IF i \in CompletedSnapshots(p)
       THEN /\ verifying' = [verifying EXCEPT ![v] =
                  <<[import |-> i, expected |-> imports[i].manifest, listing |-> {},
                     checked |-> {}, intact |-> AsWritten(i)]>>]
            /\ reply' = <<>>
       ELSE Withheld(v)
    /\ UNCHANGED <<importDisks, frozenAt, serviceState, callers>>

\* Mutant: any manifest will do that the files agree with.
AnyManifest(held, manifest) == TRUE

\* The manifest is the one whose hash was recorded.
RecordedManifest(held, manifest) == manifest = held.expected

\* The manifest is read once; what it lists is taken from the bytes read.
VerifyManifest(v) ==
    /\ verifying[v] # <<>>
    /\ verifying[v][1].listing = {}
    /\ LET held == verifying[v][1]
           manifest == packs[held.import]["manifest"]
       IN IF RecordedManifest(held, manifest)
          THEN verifying' = [verifying EXCEPT ![v][1].listing = {manifest}] /\ reply' = <<>>
          ELSE Withheld(v)
    /\ UNCHANGED <<importDisks, frozenAt, serviceState, callers>>

\* Each listed file is read and hashed.
VerifyFile(v, file) ==
    /\ verifying[v] # <<>>
    /\ verifying[v][1].listing # {}
    /\ file \notin verifying[v][1].checked
    /\ LET held == verifying[v][1] IN
       IF packs[held.import][file] \in held.listing
       THEN verifying' = [verifying EXCEPT ![v][1].checked = @ \cup {file}] /\ reply' = <<>>
       ELSE Withheld(v)
    /\ UNCHANGED <<importDisks, frozenAt, serviceState, callers>>

\* The packet is read again, and what is answered is the hash of this reading.
VerifyAnswer(v) ==
    /\ verifying[v] # <<>>
    /\ verifying[v][1].checked = PackFiles
    /\ LET held == verifying[v][1] IN
       reply' = <<[kind |-> "pack", import |-> held.import,
                   packet |-> packs[held.import]["packet"], intact |-> held.intact]>>
    /\ verifying' = [verifying EXCEPT ![v] = <<>>]
    /\ UNCHANGED <<importDisks, frozenAt, serviceState, callers>>

\* A file cannot be read, at any of the reads.
VerifyFails(v) ==
    /\ verifying[v] # <<>>
    /\ Withheld(v)
    /\ UNCHANGED <<importDisks, frozenAt, serviceState, callers>>

PocImportNext ==
    \/ \E p \in ImportPocs : FreezeExternal(p) \/ LapseExternal(p) \/ ImportSnapshot(p)
    \/ \E l \in Labels, n \in Nodes : ChangeRoot(l, n)
    \/ \E c \in ImportCallers, p \in ImportPocs, sel \in Selections, k \in ImportKeys : StartLookup(c, p, sel, k)
    \/ \E c \in ImportCallers : StartResolve(c) \/ StartAdmit(c)
    \/ \E c \in ImportCallers, launched \in BOOLEAN : StartLaunch(c, launched)
    \/ \E i \in DOMAIN imports, works \in BOOLEAN : ImportBundle(i, works) \/ WritePack(i, works)
    \/ \E i \in DOMAIN imports : CompleteImport(i)
    \/ \E i \in DOMAIN imports, parts \in SUBSET PackParts \ {{}} :
          \E content \in {0, i} : ChangePack(i, parts, content)
    \/ \E v \in PackReaders, p \in ImportPocs, i \in DOMAIN imports : VerifyBegin(v, p, i)
    \/ \E v \in PackReaders : VerifyManifest(v) \/ VerifyAnswer(v) \/ VerifyFails(v)
    \/ \E v \in PackReaders, file \in PackFiles : VerifyFile(v, file)

PocImportSpec == PocImportInit /\ [][PocImportNext]_importVars

\* One import at a time per POC, and the set of active POCs is exactly the POCs
\* that have one: the set is filled in start and emptied on five paths of the
\* worker, and a path that forgot it would lock the POC for good.
ActiveIsImporting ==
    \A p \in ImportPocs :
        LET running == {i \in DOMAIN imports : imports[i].poc = p /\ imports[i].status = "IMPORTING"} IN
        /\ Cardinality(running) <= 1
        /\ p \in busy <=> running # {}

\* What an answer offers is evidence that was selected, by a contract that allows
\* it, from a bundle that had the selected digest when it was read.  A pack is
\* handed out only if each of its parts has been as it was written at some time
\* since it was asked for.  It is not said that the packet whose hash is answered
\* is the written one: that reading is not compared with the manifest, and a
\* packet exchanged after its check is answered for
\* (verified_evidence_pack_sha256).
OfferedIsSelected ==
    reply # <<>> /\ reply[1].kind \in {"pack", "latest"} =>
        LET r == reply[1]
            record == imports[r.import]
        IN /\ frozenAt[record.poc].pinned \in {{}, {record.sel}}
           /\ record.status = "COMPLETED" => record.result = {record.sel} /\ r.import \in DOMAIN packs
           /\ r.kind = "pack" => record.status = "COMPLETED" /\ r.intact = PackParts

\* What the test of a replayed start asserts: an idempotency key names one import.
KeyNamesOneImport ==
    \A i, j \in DOMAIN imports : imports[i].key = imports[j].key => i = j
=============================================================================
