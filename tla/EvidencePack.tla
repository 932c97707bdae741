---------------------------- MODULE EvidencePack ----------------------------
(***************************************************************************)
(* Publication of the Evidence Pack of one attempt on disk                 *)
(* (publish_generic_evidence_pack and verify_generic_evidence_pack).       *)
(*                                                                         *)
(* Every step of a publisher may raise OSError, the process may be killed  *)
(* between two steps, and the machine may crash, which loses directory     *)
(* entries that were not synced.  Publishers race for the final name.      *)
(* Verification holds the service's lock and is a predicate of the disk.   *)
(***************************************************************************)
EXTENDS Sequences, FiniteSets, Functions

CONSTANTS
    Publishers,     \* calls of publish_generic_evidence_pack
    Order,          \* _ARTIFACTS followed by _MANIFEST, in the order of linking
    Marker,         \* _COMPLETION_MARKER
    CleanupFails,   \* whether removing a directory may leave files behind
    Nobody

Files == Range(Order)
Entries == Files \cup {Marker}

ASSUME EvidencePackAssumption ==
    /\ Marker \notin Files /\ Nobody \notin Publishers
    /\ Order \in Seq(Files) /\ CleanupFails \in BOOLEAN

VARIABLES
    tmp,        \* publisher -> files in its temporary directory
    owner,      \* who made the final directory, or Nobody
    dest,       \* entries of the final directory
    safe,       \* entries that survive a crash of the machine
    rooted,     \* the final directory itself survives a crash
    pc,         \* publisher -> its next step
    outcome     \* publisher -> what its call came to

packVars == <<tmp, owner, dest, safe, rooted, pc, outcome>>
diskVars == <<owner, dest, safe, rooted>>

PackInit ==
    /\ tmp = [w \in Publishers |-> {}]
    /\ owner = Nobody
    /\ dest = {} /\ safe = {} /\ rooted = FALSE
    /\ pc = [w \in Publishers |-> "stage"]
    /\ outcome = [w \in Publishers |-> "none"]

Goto(w, step) == pc' = [pc EXCEPT ![w] = step]

-----------------------------------------------------------------------------
(***************************************************************************)
(* publish_generic_evidence_pack                                           *)
(***************************************************************************)

\* mkdtemp, and every artifact and the manifest written and synced there
Stage(w) ==
    /\ pc[w] = "stage"
    /\ tmp' = [tmp EXCEPT ![w] = Files]
    /\ Goto(w, "claim")
    /\ UNCHANGED <<diskVars, outcome>>

\* destination.mkdir succeeds.
NameFree == owner = Nobody

\* Mutant: a publisher that finds the name taken starts over.
StartOver(w) == Goto(w, "stage")

\* FileExistsError: the pack of this attempt exists already.
NameTaken(w) == Goto(w, "drop_tmp")

Claim(w) ==
    /\ pc[w] = "claim"
    /\ IF NameFree
       THEN /\ owner' = w /\ dest' = {} /\ safe' = {} /\ rooted' = FALSE
            /\ Goto(w, "link")
       ELSE NameTaken(w) /\ UNCHANGED diskVars
    /\ UNCHANGED <<tmp, outcome>>

\* The next file in order: link it, and unlink it in the temporary directory.
Link(w) ==
    /\ pc[w] = "link" /\ tmp[w] # {}
    /\ \E i \in DOMAIN Order :
        /\ Order[i] \in tmp[w]
        /\ \A j \in 1..(i - 1) : Order[j] \notin tmp[w]
        /\ dest' = dest \cup {Order[i]}
        /\ tmp' = [tmp EXCEPT ![w] = @ \ {Order[i]}]
    /\ UNCHANGED <<owner, safe, rooted, pc, outcome>>

\* The completion marker, synced; its directory entry is not yet.
Mark(w) ==
    /\ pc[w] = "link" /\ tmp[w] = {}
    /\ dest' = dest \cup {Marker}
    /\ Goto(w, "sync")
    /\ UNCHANGED <<tmp, owner, safe, rooted, outcome>>

\* Mutant: the directory is not synced.
SyncNothing == UNCHANGED safe

\* _fsync_directory(destination)
SyncEntries == safe' = dest

Sync(w) ==
    /\ pc[w] = "sync"
    /\ SyncEntries
    /\ Goto(w, "remove_tmp")
    /\ UNCHANGED <<tmp, owner, dest, rooted, outcome>>

\* shutil.rmtree(temporary) and temporary = None
RemoveTmp(w) ==
    /\ pc[w] = "remove_tmp"
    /\ tmp' = [tmp EXCEPT ![w] = {}]
    /\ Goto(w, "sync_root")
    /\ UNCHANGED <<diskVars, outcome>>

\* _fsync_directory(root), and the call returns
SyncRoot(w) ==
    /\ pc[w] = "sync_root"
    /\ rooted' = TRUE
    /\ outcome' = [outcome EXCEPT ![w] = "published"]
    /\ Goto(w, "done")
    /\ UNCHANGED <<tmp, owner, dest, safe>>

\* A step raises OSError.  The finally clause removes what the call made,
\* unless the temporary directory is already gone.
Raise(w) ==
    /\ pc[w] \in {"stage", "claim", "link", "sync", "remove_tmp", "sync_root"}
    /\ IF pc[w] = "sync_root"
       THEN /\ Goto(w, "done")
            /\ outcome' = [outcome EXCEPT ![w] = "error"]
       ELSE /\ Goto(w, IF pc[w] \in {"stage", "claim"} THEN "drop_tmp" ELSE "drop_both")
            /\ UNCHANGED outcome
    /\ UNCHANGED <<tmp, diskVars>>

\* rmtree(..., ignore_errors=True) of the temporary directory, and of the final
\* one if this call made it: files it cannot remove stay.
Leftovers(w, rest) ==
    IF pc[w] = "drop_tmp" THEN UNCHANGED diskVars
    ELSE /\ owner = w
         /\ rest \subseteq dest /\ (rest # {} => CleanupFails)
         /\ dest' = rest
         /\ safe' = safe \cap rest
         /\ owner' = IF rest = {} THEN Nobody ELSE w
         /\ rooted' = (rooted /\ rest # {})

Cleanup(w) ==
    /\ pc[w] \in {"drop_tmp", "drop_both"}
    /\ \E rest \in SUBSET Entries : Leftovers(w, rest)
    /\ tmp' = [tmp EXCEPT ![w] = {}]
    /\ outcome' = [outcome EXCEPT ![w] = "error"]
    /\ Goto(w, "done")

\* A failed call may be repeated for the same attempt.
Retry(w) ==
    /\ pc[w] = "done" /\ outcome[w] = "error"
    /\ Goto(w, "stage")
    /\ UNCHANGED <<tmp, diskVars, outcome>>

-----------------------------------------------------------------------------
(***************************************************************************)
(* The environment.                                                        *)
(***************************************************************************)

Kill(w) ==
    /\ pc[w] \notin {"done", "dead"}
    /\ Goto(w, "dead")
    /\ UNCHANGED <<tmp, diskVars, outcome>>

\* The machine crashes: every process is gone, unsynced entries may be.
Crash ==
    /\ \E w \in Publishers : pc[w] # "dead"
    /\ pc' = [w \in Publishers |-> "dead"]
    /\ \/ ~rooted /\ owner' = Nobody /\ dest' = {} /\ safe' = {} /\ UNCHANGED rooted
       \/ /\ \E kept \in SUBSET dest : safe \subseteq kept /\ dest' = kept
          /\ UNCHANGED <<owner, safe, rooted>>
    /\ UNCHANGED <<tmp, outcome>>

Publish(w) ==
    \/ Stage(w) \/ Claim(w) \/ Link(w) \/ Mark(w) \/ Sync(w) \/ RemoveTmp(w) \/ SyncRoot(w)

PackNext ==
    \/ \E w \in Publishers : Publish(w) \/ Raise(w) \/ Cleanup(w) \/ Retry(w) \/ Kill(w)
    \/ Crash

\* A call that is not killed keeps running.
PackFairness == \A w \in Publishers : WF_packVars(Publish(w) \/ Cleanup(w))

PackSpec == PackInit /\ [][PackNext]_packVars /\ PackFairness

-----------------------------------------------------------------------------
(***************************************************************************)
(* Properties.                                                             *)
(***************************************************************************)

\* verify_generic_evidence_pack: exactly the entries of a pack
Verifies == dest = Entries

\* A pack whose call reported success verifies for ever: neither a failing or
\* racing publisher nor a crash of the machine takes anything from it, and a
\* second publisher of the attempt never reports another.
PublishedStays ==
    \A w \in Publishers : outcome[w] = "published" => Verifies /\ owner = w

\* Every call ends unless its process is killed.
CallsEnd ==
    \A w \in Publishers : pc[w] # "done" ~> pc[w] \in {"done", "dead"}

\* What the error of a failed publication says: it failed safely, that is no
\* pack of it is left behind that verifies.  The code breaks it when syncing the
\* root raises after the temporary directory is gone.
ErrorMeansNoPack ==
    \A w \in Publishers :
        outcome[w] = "error" /\ pc[w] = "done" /\ owner = w => ~Verifies

=============================================================================
