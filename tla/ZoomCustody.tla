---------------------------- MODULE ZoomCustody ----------------------------
(***************************************************************************)
(* Custody of a private Zoom fixture capture.  The operator's commands      *)
(* write a plan and a preflight receipt, seal the raw artifacts under a     *)
(* manifest, record a privacy review, and publish a sanitized fixture that  *)
(* a second person approved.  A command may die after any of its writes,    *)
(* and the raw files change until they are read-only.                       *)
(***************************************************************************)
EXTENDS Naturals, FiniteSets

CONSTANTS
    Plans,        \* capture plans an operator may offer
    Raws,         \* contents of the raw directory, complete or not
    Partial,      \* the contents that lack an artifact
    Reviews,      \* privacy reviews a person may write
    Absent,       \* a file that does not exist
    LastSeal      \* bound: the times at which sealing is tried

ASSUME CustodyAssumption ==
    /\ Partial \subseteq Raws /\ LastSeal \in Nat
    /\ Absent \notin [plan : Plans, inventory : Raws, at : Nat]
    /\ Absent \notin [review : Reviews, of : [plan : Plans, inventory : Raws, at : Nat]]

VARIABLES
    files,   \* control file |-> contents
    raw,     \* contents of the raw directory
    frozen,  \* the capture was made read-only
    step,    \* the command that is running, with what it still writes
    clock,   \* the time a seal records
    answers  \* ghost: receipts returned, with the raw contents they were about

custodyVars == <<files, raw, frozen, step, clock, answers>>

Files == {"plan", "preflight", "template", "manifest", "review", "receipt"}

Waiting == [do |-> "none"]

CustodyInit ==
    /\ files = [f \in Files |-> Absent]
    /\ raw \in Raws
    /\ frozen = FALSE
    /\ step = Waiting
    /\ clock = 1
    /\ answers = {}

\* An artifact arrives or is written over; read-only files stay.
RawChanges(r) ==
    /\ ~frozen
    /\ r # raw
    /\ raw' = r
    /\ UNCHANGED <<files, frozen, step, clock, answers>>

\* _write_idempotent_control_file: a new file, or the same bytes again; other
\* bytes are a conflict and end the command.
Writable(f, bytes) == files[f] \in {Absent, bytes}

WriteThen(f, bytes, next) ==
    IF Writable(f, bytes)
    THEN files' = [files EXCEPT ![f] = bytes] /\ step' = next
    ELSE UNCHANGED files /\ step' = Waiting

\* initialize_zoom_fixture_capture: exact replay of a prepared workspace, a
\* conflict with half of one or another's, else the first of its two writes.
Initialize(p) ==
    /\ step = Waiting
    /\ IF files["plan"] = Absent /\ files["preflight"] = Absent
       THEN WriteThen("plan", p, [do |-> "preflight", plan |-> p])
       ELSE UNCHANGED <<files, step>>
    /\ UNCHANGED <<raw, frozen, clock, answers>>

WritePreflight ==
    /\ step.do = "preflight"
    /\ WriteThen("preflight", step.plan, Waiting)
    /\ UNCHANGED <<raw, frozen, clock, answers>>

Prepared == files["plan"] # Absent /\ files["preflight"] = files["plan"]

\* The manifest names the plan, the inventory and the time of the seal.
Manifest == [plan |-> files["plan"], inventory |-> raw, at |-> clock]

\* seal_zoom_fixture_capture: without a manifest, the inventory of a complete
\* raw directory and the template; then the modes; then the manifest.
Seal ==
    /\ step = Waiting
    /\ files["manifest"] = Absent
    /\ Prepared
    /\ raw \notin Partial
    /\ WriteThen("template", Manifest, [do |-> "freeze", manifest |-> Manifest])
    /\ UNCHANGED <<raw, frozen, clock, answers>>

MakeReadOnly ==
    /\ step.do = "freeze"
    /\ frozen' = TRUE
    /\ step' = [step EXCEPT !.do = "manifest"]
    /\ UNCHANGED <<files, raw, clock, answers>>

WriteManifest ==
    /\ step.do = "manifest"
    /\ WriteThen("manifest", step.manifest, Waiting)
    /\ UNCHANGED <<raw, frozen, clock, answers>>

\* A fault: a manifest is believed without another look at the raw files.
VerifiedAsWritten ==
    /\ Prepared
    /\ files["manifest"] # Absent
    /\ files["manifest"].plan = files["plan"]

\* verify_zoom_fixture_capture, which also ends a seal and starts a review.
Verified ==
    /\ Prepared
    /\ files["manifest"] # Absent
    /\ files["manifest"].plan = files["plan"]
    /\ raw \notin Partial
    /\ files["manifest"].inventory = raw
    /\ frozen

\* record_zoom_fixture_privacy_review: the review names the verified manifest.
Review(r) ==
    /\ step = Waiting
    /\ Verified
    /\ WriteThen("review", [review |-> r, of |-> files["manifest"]],
                 [do |-> "receipt", review |-> [review |-> r, of |-> files["manifest"]]])
    /\ UNCHANGED <<raw, frozen, clock, answers>>

WriteReceipt ==
    /\ step.do = "receipt"
    /\ WriteThen("receipt", step.review, Waiting)
    /\ answers' = IF Writable("receipt", step.review)
                  THEN answers \cup {[receipt |-> step.review, raw |-> raw]} ELSE answers
    /\ UNCHANGED <<raw, frozen, clock>>

\* The command dies; the next one is run at a later time.
CommandDies ==
    /\ step # Waiting
    /\ step' = Waiting
    /\ UNCHANGED <<files, raw, frozen, clock, answers>>

TimeGoesOn ==
    /\ clock < LastSeal
    /\ clock' = clock + 1
    /\ UNCHANGED <<files, raw, frozen, step, answers>>

CustodyNext ==
    \/ \E r \in Raws : RawChanges(r)
    \/ \E p \in Plans : Initialize(p)
    \/ WritePreflight
    \/ Seal
    \/ MakeReadOnly
    \/ WriteManifest
    \/ \E r \in Reviews : Review(r)
    \/ WriteReceipt
    \/ CommandDies
    \/ TimeGoesOn

CustodySpec == CustodyInit /\ [][CustodyNext]_custodyVars

\* A privacy review speaks of one seal and of the files that were sealed: all
\* receipts are one, and the raw directory still is what its manifest lists,
\* whatever was written over while the seal was in progress.
ReviewedIsSealed ==
    /\ \A a, b \in answers : a.receipt = b.receipt
    /\ \A a \in answers : a.receipt.of.inventory = raw /\ a.receipt.of = files["manifest"]
=============================================================================
