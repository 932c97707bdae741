------------------------- MODULE ConfirmationLedger -------------------------
(***************************************************************************)
(* The durable ledger in SQLite: creation of the history table, migrations *)
(* by any number of processes, issuance of invitations with their audit    *)
(* event in one transaction, and the checks of reader and writer           *)
(* (confirmation_sqlite, confirmation_schema, confirmation_ledger).        *)
(*                                                                         *)
(* A transaction that holds the write lock (BEGIN IMMEDIATE) is one step;  *)
(* what is committed survives the death of a process.  Revocation, reissue *)
(* and decision have tables, triggers and checks here but no writer yet:   *)
(* the writer below inserts what the schema and the checks call legal.     *)
(***************************************************************************)
EXTENDS Naturals, FiniteSets, Sequences, Dicts

CONSTANTS
    Missing,
    Capabilities,  \* invitation records: [id, token, version, print, issued, expires]
    Processes,
    Plan,          \* the migrations of the binary, by checksum
    MaxEvents      \* bound on the audit log

ASSUME LedgerAssumption ==
    /\ Plan \in Seq({Plan[n] : n \in DOMAIN Plan})
    /\ \A i \in Capabilities : i.issued \in Nat /\ i.expires \in Nat /\ i.id # "CORRUPT"

VARIABLES
    tables,    \* "none", "history"
    history,   \* schema_migrations
    schema,    \* the migrations whose statements took effect, in order
    rows,      \* review_invitations
    revoked,   \* invitation_revocations: [id, at, reason]
    ruled,     \* confirmation_decisions, by contract version: [id, print, at]
    audit,     \* confirmation_audit_events
    conn       \* per process: where its connection is

ledgerVars == <<tables, history, schema, rows, revoked, ruled, audit, conn>>
contents == <<rows, revoked, ruled, audit>>

LedgerInit ==
    /\ tables = "none"
    /\ history = <<>> /\ schema = <<>>
    /\ rows = {}
    /\ revoked = {}
    /\ ruled = EmptyDict
    /\ audit = <<>>
    /\ conn = [p \in Processes |-> "closed"]

Goes(p, state) == conn' = [conn EXCEPT ![p] = state]

\* open_confirmation_database: whoever comes first creates the history table,
\* with its triggers, in one transaction.
OpenDatabase(p) ==
    /\ conn[p] = "closed"
    /\ tables' = "history"
    /\ Goes(p, "opened")
    /\ UNCHANGED <<history, schema, contents>>

\* _validate_history
HistoryIsPrefix == Len(history) <= Len(Plan) /\ history = SubSeq(Plan, 1, Len(history))

\* Mutant: the next migration was chosen before the write lock was taken.
MigrateFromMemory(p) ==
    /\ conn[p] = "opened"
    /\ HistoryIsPrefix
    /\ \E n \in 0 .. Len(history) :
          IF n = Len(Plan) THEN Goes(p, "migrated") /\ UNCHANGED <<history, schema>>
          ELSE /\ history' = IF n = Len(history) THEN Append(history, Plan[n + 1]) ELSE history
               /\ schema' = Append(schema, Plan[n + 1])
               /\ UNCHANGED conn
    /\ UNCHANGED <<tables, contents>>

\* One round of apply_migrations: history, statements and the new row of the
\* history are one transaction.
Migrate(p) ==
    /\ conn[p] = "opened"
    /\ HistoryIsPrefix
    /\ IF Len(history) = Len(Plan) THEN Goes(p, "migrated") /\ UNCHANGED <<history, schema>>
       ELSE /\ history' = Append(history, Plan[Len(history) + 1])
            /\ schema' = Append(schema, Plan[Len(history) + 1])
            /\ UNCHANGED conn
    /\ UNCHANGED <<tables, contents>>

\* validate_confirmation_schema: the objects are exactly those of the plan.
SchemaIsExact == history = Plan /\ schema = Plan

\* The end of bootstrap_confirmation_ledger
Bootstrapped(p) ==
    /\ conn[p] = "migrated"
    /\ Goes(p, IF SchemaIsExact THEN "ready" ELSE "closed")
    /\ UNCHANGED <<tables, history, schema, contents>>

\* open_existing_confirmation_ledger: nothing is created or migrated.
OpenExisting(p) ==
    /\ conn[p] = "closed"
    /\ tables = "history" /\ SchemaIsExact
    /\ Goes(p, "ready")
    /\ UNCHANGED <<tables, history, schema, contents>>

\* The process dies, or its connection fails, between two transactions.
Disconnect(p) ==
    /\ conn[p] # "closed"
    /\ Goes(p, "closed")
    /\ UNCHANGED <<tables, history, schema, contents>>

-----------------------------------------------------------------------------
(***************************************************************************)
(* What the tables, their triggers and the authorizer of a connection let  *)
(* through.                                                                *)
(***************************************************************************)

Bound(x) == <<x.version, x.print>>
Events == {audit[n] : n \in DOMAIN audit}
RevocationOf(id) == {r \in revoked : r.id = id}

\* The triggers *_consistent_fingerprint
PrintFits(x) == \A y \in rows \cup Events : y.version = x.version => y.print = x.print

\* review_invitations: primary key, unique token, a lifetime
InvitationFits(inv) ==
    /\ \A i \in rows : i.id # inv.id /\ i.token # inv.token
    /\ inv.issued < inv.expires

\* invitation_revocations: one for an invitation that is there
RevocationFits(id) == RevocationOf(id) = {} /\ \E i \in rows : i.id = id

\* confirmation_decisions, with the trigger for an active invitation
DecisionFits(i, at) ==
    /\ i \in rows /\ at < i.expires
    /\ RevocationOf(i.id) = {}
    /\ i.version \notin DOMAIN ruled

\* confirmation_audit_events: the subject a type of event names is there.
EventFits(type, i) ==
    /\ type \in {"ISSUED", "REISSUED", "REVOKED"} => i \in rows
    /\ type = "REJECTED" => \A j \in rows : j.id # i.id

\* The update, delete and replace triggers of every table
AppendOnly(verb, table) == table \in {"history", "domain"} /\ verb \in {"update", "delete"}

\* Mutant: the mode is not set back after the statements of a migration.
AuthorizedForever(mode, verb, table) == table # "history" /\ verb \notin {"attach", "transaction", "pragma"}

\* __authorize
Authorized(mode, verb, table) ==
    \/ mode = "bootstrap"
    \/ mode = "migration" /\ table # "history" /\ verb \notin {"attach", "transaction", "pragma"}
    \/ mode = "history_insert" /\ verb = "insert"
    \/ mode = "normal" /\ \/ verb = "insert" /\ table = "domain"
                          \/ verb = "select"

\* Any statement a caller may run on a connection it was handed; an insert
\* is one of the actions below.
Statement(p, verb, table) ==
    /\ conn[p] = "ready"
    /\ LET runs == Authorized("normal", verb, table) /\ ~AppendOnly(verb, table) IN
       /\ history' = IF runs /\ verb \in {"update", "delete", "drop"} /\ table = "history" THEN <<>> ELSE history
       /\ rows' = IF runs /\ verb \in {"update", "delete", "drop"} /\ table = "domain" THEN {} ELSE rows
    /\ UNCHANGED <<tables, schema, revoked, ruled, audit, conn>>

-----------------------------------------------------------------------------
(***************************************************************************)
(* The checks every write starts with.                                     *)
(***************************************************************************)

\* _remember_persisted_binding
OnePrintPerVersion ==
    \A x, y \in rows \cup Events : x.version = y.version => x.print = y.print

\* The bindings and identities of the stored rows
RowsAgree ==
    /\ \A i, j \in rows : i # j => i.id # j.id /\ i.token # j.token
    /\ \A r \in revoked : \E i \in rows : i.id = r.id /\ i.issued <= r.at
    /\ \A r, s \in revoked : r.id = s.id => r = s

\* A rejection may name an invitation that was never stored.
EventsAgree ==
    \A e \in Events :
        IF \E i \in rows : i.id = e.id
        THEN \E i \in rows : i.id = e.id /\ Bound(i) = Bound(e)
        ELSE e.type = "REJECTED"

\* _is_valid_revocation_audit_event, once for every revocation
RevocationsAudited ==
    /\ \A r \in revoked : Cardinality({n \in DOMAIN audit :
            audit[n].type = "REVOKED" /\ audit[n].id = r.id}) = 1
    /\ \A e \in Events : e.type = "REVOKED" =>
            \E r \in revoked : r.id = e.id /\ r.at = e.at /\ r.reason = e.reason

\* _reissue_source_invitation_id: what a reissued invitation may replace
ReissueSources(i) ==
    {s \in rows : s.id # i.id /\ Bound(s) = Bound(i) /\ s.issued <= i.issued
        /\ \E r \in RevocationOf(s.id) : r.at = i.issued /\ r.reason = "REISSUED"}

Creations(i) == {n \in DOMAIN audit : audit[n].type \in {"ISSUED", "REISSUED"} /\ audit[n].id = i.id}

\* One creation event for every invitation, and one source for a reissued one
CreationsAudited ==
    LET reissued == {i \in rows : \E n \in Creations(i) : audit[n].type = "REISSUED"} IN
    /\ \A i \in rows : Cardinality(Creations(i)) = 1 /\ \A n \in Creations(i) : audit[n].at = i.issued
    /\ \A i \in reissued : Cardinality(ReissueSources(i)) = 1
    /\ \A i, j \in reissued : i # j => ReissueSources(i) # ReissueSources(j)
    /\ \A r \in revoked : r.reason = "REISSUED" =>
            \E i \in reissued : \E s \in ReissueSources(i) : s.id = r.id

\* _validate_invitation_write_state
WriteStateIsValid ==
    /\ OnePrintPerVersion /\ RowsAgree /\ EventsAgree /\ RevocationsAudited /\ CreationsAudited

-----------------------------------------------------------------------------
(***************************************************************************)
(* Writing and reading.                                                    *)
(***************************************************************************)

Event(type, i, at, reason) ==
    [type |-> type, id |-> i.id, version |-> i.version, print |-> i.print, at |-> at, reason |-> reason]

Log(events) == Len(audit) + Len(events) <= MaxEvents /\ audit' = audit \o events

\* Why _issue_invitation_in_transaction refuses a record that is not stored
IdentityConflict(inv) ==
    \/ \E i \in rows : i.id = inv.id
    \/ \E e \in Events : e.id = inv.id /\ Bound(e) # Bound(inv)

IssuanceRefused(inv) ==
    \/ IdentityConflict(inv)
    \/ \E i \in rows : i.token = inv.token
    \/ \E x \in rows \cup Events : x.version = inv.version /\ x.print # inv.print

\* Mutant: the audit event is left to a second transaction.
IssueUnaudited(p, inv) ==
    /\ conn[p] = "ready"
    /\ WriteStateIsValid
    /\ ~IssuanceRefused(inv)
    /\ rows' = rows \cup {inv}
    /\ Log(<<>>)
    /\ UNCHANGED <<tables, history, schema, revoked, ruled, conn>>

\* issue_invitation: row and event are one transaction.  Whether the caller
\* hears of its commit or not, the same record sent again is returned as
\* stored.
IssueInvitation(p, inv) ==
    /\ conn[p] = "ready"
    /\ WriteStateIsValid
    /\ ~IssuanceRefused(inv)
    /\ InvitationFits(inv) /\ PrintFits(inv)
    /\ rows' = rows \cup {inv}
    /\ Log(<<Event("ISSUED", inv, inv.issued, Missing)>>)
    /\ UNCHANGED <<tables, history, schema, revoked, ruled, conn>>

\* A rejection is audited, under the trigger that keeps one print per version.
AuditRejection(p, inv) ==
    /\ conn[p] = "ready"
    /\ PrintFits(inv) /\ EventFits("REJECTED", inv)
    /\ \A e \in Events : e.id # inv.id
    /\ Log(<<Event("REJECTED", inv, inv.issued, Missing)>>)
    /\ UNCHANGED <<tables, history, schema, rows, revoked, ruled, conn>>

\* A revocation with its event
RevokeRow(p, i) ==
    /\ conn[p] = "ready"
    /\ i \in rows /\ RevocationFits(i.id) /\ i.version \notin DOMAIN ruled
    /\ revoked' = revoked \cup {[id |-> i.id, at |-> i.issued, reason |-> "MANUAL"]}
    /\ Log(<<Event("REVOKED", i, i.issued, "MANUAL")>>)
    /\ UNCHANGED <<tables, history, schema, rows, ruled, conn>>

\* The reissues of a contract are told apart by their instants alone
\* (_reissue_source_invitation_id).
InstantIsTaken(inv) ==
    \E i \in rows : Bound(i) = Bound(inv) /\
        \E r \in RevocationOf(i.id) : r.at = inv.issued /\ r.reason = "REISSUED"

\* ReissueInvitation: a later record replaces an open one.
Reissue(p, i, inv) ==
    /\ conn[p] = "ready"
    /\ i \in rows /\ RevocationFits(i.id) /\ i.version \notin DOMAIN ruled
    /\ ~IssuanceRefused(inv) /\ InvitationFits(inv)
    /\ Bound(inv) = Bound(i) /\ i.issued < inv.issued /\ ~InstantIsTaken(inv)
    /\ rows' = rows \cup {inv}
    /\ revoked' = revoked \cup {[id |-> i.id, at |-> inv.issued, reason |-> "REISSUED"]}
    /\ Log(<<Event("REVOKED", i, inv.issued, "REISSUED"), Event("REISSUED", inv, inv.issued, "REISSUED")>>)
    /\ UNCHANGED <<tables, history, schema, ruled, conn>>

\* confirmation_decisions_active_invitation, and one decision per version
Rule(p, i) ==
    /\ conn[p] = "ready"
    /\ DecisionFits(i, i.issued)
    /\ ruled' = Put(ruled, i.version, [id |-> i.id, print |-> i.print, at |-> i.issued])
    /\ UNCHANGED <<tables, history, schema, rows, revoked, audit, conn>>

\* _read_decision_for_version finds its decision sound.
DecisionIsSound(v) ==
    v \in DOMAIN ruled => \E i \in rows :
        /\ i.id = ruled[v].id /\ i.print = ruled[v].print
        /\ i.issued <= ruled[v].at /\ ruled[v].at < i.expires
        /\ \A r \in RevocationOf(i.id) : r.at >= ruled[v].at

\* resolve_ledger_invitation, over one snapshot
Resolve(token, time) ==
    LET owners == {i \in rows : i.token = token} IN
    IF ~\A i, j \in rows : i.version = j.version => i.print = j.print THEN "CORRUPT"
    ELSE IF owners = {} THEN Missing
    ELSE LET i == CHOOSE x \in owners : TRUE IN
         IF Cardinality(owners) > 1 \/ ~DecisionIsSound(i.version) THEN "CORRUPT"
         ELSE IF RevocationOf(i.id) # {} THEN "REVOKED"
         ELSE IF i.version \in DOMAIN ruled THEN "CONSUMED"
         ELSE IF time >= i.expires THEN "EXPIRED"
         ELSE i.id

LedgerNext == \E p \in Processes :
    \/ OpenDatabase(p)
    \/ Migrate(p)
    \/ Bootstrapped(p)
    \/ OpenExisting(p)
    \/ Disconnect(p)
    \/ \E inv \in Capabilities : IssueInvitation(p, inv) \/ AuditRejection(p, inv)
    \/ \E i \in rows : RevokeRow(p, i) \/ Rule(p, i)
    \/ \E verb \in {"select", "update", "delete", "drop"}, table \in {"history", "domain"} :
          Statement(p, verb, table)
    \/ \E i \in rows, inv \in Capabilities : Reissue(p, i, inv)

LedgerSpec == LedgerInit /\ [][LedgerNext]_ledgerVars

-----------------------------------------------------------------------------

\* The promise of the port, for what the ledger writes: its rows are the
\* invitations of the reference adapter.
Store == INSTANCE ConfirmationStore WITH
    invitations <- [id \in {i.id : i \in rows} |-> CHOOSE i \in rows : i.id = id],
    verdicts <- EmptyDict, operations <- EmptyDict, Commands <- {}

\* Whatever the processes do, and wherever one dies, every issuance is one the
\* reference adapter allows and none is lost or changed.
LedgerImplementsStore == Store!StoreSpec

\* Everything the writers committed passes the checks of the next write and
\* of every read: no crash, race or sequence of legal writes makes a ledger
\* that its own code calls corrupt.
OwnLedgerIsValid ==
    /\ WriteStateIsValid
    /\ \A i \in rows : Resolve(i.token, i.issued) # "CORRUPT"

\* Each migration takes effect once, in the order of the plan, with its row in
\* the history, however many processes bootstrap at a time.
MigratedOnce == history = schema /\ HistoryIsPrefix
=============================================================================
