----------------------------- MODULE BundleReader -----------------------------
(***************************************************************************)
(* _SafeBundleReader and the order in which verify_inferdrome_bundle uses  *)
(* it: scan the directory, read every artifact once, verify what was read, *)
(* scan again.  A producer that is not done, or another process, writes,   *)
(* replaces, adds or removes files at any moment.                          *)
(*                                                                         *)
(* A node has an identity (device, inode, mode, size, times) that every    *)
(* change of it renews, and a content that a change may leave as it was.   *)
(***************************************************************************)
EXTENDS Naturals, FiniteSets

CONSTANTS
    BundlePaths,   \* files a bundle declares
    ExtraPaths,    \* files it does not
    Contents,      \* what a file may hold; "link" is no content
    MaxFiles,      \* max_files
    MaxChanges     \* bound on the changes of the disk

VARIABLES
    disk,      \* path -> [id, kind, content] of the nodes there are
    root,      \* identity of the directory, renewed when a name comes or goes
    changes,   \* number of changes so far; the next identity
    rpc,       \* phase of the reader: open, scan, read, verify, rescan, accepted, rejected
    rootSeen,  \* identity of the directory when the reader opened it
    seen,      \* path -> identity, of the scan
    again,     \* path -> identity, of the second scan
    cache,     \* path -> content read
    frozenDisk \* ghost: the disk when the second scan began

disks == <<disk, root, changes>>
bundleVars == <<disks, rpc, rootSeen, seen, again, cache, frozenDisk>>

AllPaths == BundlePaths \cup ExtraPaths
Nothing == [p \in {} |-> 0]
Node(id, kind, content) == [id |-> id, kind |-> kind, content |-> content]

ReaderInit ==
    /\ disk \in [BundlePaths -> {Node(0, "file", c) : c \in Contents}]
    /\ changes = 0 /\ root = 0
    /\ rpc = "open" /\ rootSeen = 0
    /\ seen = Nothing /\ again = Nothing /\ cache = Nothing /\ frozenDisk = Nothing

\* Somebody else: a file is written, replaced, added or removed.
ChangeDisk(p) ==
    /\ rpc \notin {"accepted", "rejected"}
    /\ changes < MaxChanges
    /\ changes' = changes + 1
    /\ \/ \E c \in Contents :
             /\ p \in DOMAIN disk
             /\ disk' = [disk EXCEPT ![p] = Node(changes + 1, disk[p].kind, c)]
             /\ UNCHANGED root
       \/ \E k \in {"file", "link"}, c \in Contents :
             /\ disk' = [q \in DOMAIN disk \cup {p} |->
                           IF q = p THEN Node(changes + 1, k, c) ELSE disk[q]]
             /\ root' = changes + 1
       \/ /\ p \in DOMAIN disk
          /\ disk' = [q \in DOMAIN disk \ {p} |-> disk[q]]
          /\ root' = changes + 1
    /\ UNCHANGED <<rpc, rootSeen, seen, again, cache, frozenDisk>>

\* __init__: the directory is opened and its identity noted.
OpenBundle ==
    /\ rpc = "open"
    /\ rpc' = "scan"
    /\ rootSeen' = root
    /\ UNCHANGED <<disks, seen, again, cache, frozenDisk>>

Safe(p) == disk[p].kind = "file"

\* _scan_directory, entry by entry: links and other nodes end it, and so does
\* an entry beyond the limit.
Scan ==
    /\ rpc = "scan"
    /\ \/ \E p \in DOMAIN disk \ DOMAIN seen :
             IF Safe(p) /\ Cardinality(DOMAIN seen) < MaxFiles
             THEN /\ seen' = [q \in DOMAIN seen \cup {p} |-> IF q = p THEN disk[p].id ELSE seen[q]]
                  /\ UNCHANGED rpc
             ELSE /\ rpc' = "rejected" /\ UNCHANGED seen
       \/ /\ DOMAIN disk \subseteq DOMAIN seen
          /\ rpc' = IF root = rootSeen /\ DOMAIN seen = BundlePaths THEN "read" ELSE "rejected"
          /\ UNCHANGED seen
    /\ UNCHANGED <<disks, rootSeen, again, cache, frozenDisk>>

\* read_bytes: the identity is compared when the file is opened and when it was
\* read; a file changed in between has another identity by then, so the read
\* is one step.
ReadBytes(p) ==
    /\ rpc = "read"
    /\ p \in DOMAIN seen \ DOMAIN cache
    /\ IF root = rootSeen /\ p \in DOMAIN disk /\ disk[p].id = seen[p]
       THEN /\ cache' = [q \in DOMAIN cache \cup {p} |-> IF q = p THEN disk[p].content ELSE cache[q]]
            /\ UNCHANGED rpc
       ELSE /\ rpc' = "rejected" /\ UNCHANGED cache
    /\ UNCHANGED <<disks, rootSeen, seen, again, frozenDisk>>

\* The verification proper needs the bytes that were read and nothing else.
VerifyRead(holds) ==
    /\ rpc = "read"
    /\ DOMAIN cache = DOMAIN seen
    /\ rpc' = IF holds THEN "rescan" ELSE "rejected"
    /\ frozenDisk' = disk
    /\ UNCHANGED <<disks, rootSeen, seen, again, cache>>

\* Mutant: the second scan looks at the names only.
RescanNames ==
    /\ rpc = "rescan"
    /\ rpc' = IF root = rootSeen /\ DOMAIN disk = DOMAIN seen THEN "accepted" ELSE "rejected"
    /\ UNCHANGED <<disks, rootSeen, seen, again, cache, frozenDisk>>

\* assert_unchanged: a second scan, and everything as in the first.
Rescan ==
    /\ rpc = "rescan"
    /\ \/ \E p \in DOMAIN disk \ DOMAIN again :
             IF Safe(p)
             THEN /\ again' = [q \in DOMAIN again \cup {p} |-> IF q = p THEN disk[p].id ELSE again[q]]
                  /\ UNCHANGED rpc
             ELSE /\ rpc' = "rejected" /\ UNCHANGED again
       \/ /\ DOMAIN disk \subseteq DOMAIN again
          /\ rpc' = IF root = rootSeen /\ again = seen THEN "accepted" ELSE "rejected"
          /\ UNCHANGED again
    /\ UNCHANGED <<disks, rootSeen, seen, cache, frozenDisk>>

ReaderNext ==
    \/ \E p \in AllPaths : ChangeDisk(p)
    \/ OpenBundle
    \/ Scan
    \/ \E p \in BundlePaths : ReadBytes(p)
    \/ \E holds \in BOOLEAN : VerifyRead(holds)
    \/ Rescan

ReaderSpec == ReaderInit /\ [][ReaderNext]_bundleVars

\* What is accepted is one bundle: all the bytes that were verified were on
\* the disk together at one moment, however files were exchanged between the
\* reads.
VerifiedTogether ==
    rpc = "accepted" =>
        /\ DOMAIN frozenDisk = DOMAIN cache
        /\ \A p \in DOMAIN cache : frozenDisk[p].content = cache[p] /\ frozenDisk[p].kind = "file"
=============================================================================
