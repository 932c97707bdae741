------------------------------- MODULE MCDesk -------------------------------
(***************************************************************************)
(* What people do at the browser, for TLC: assisted authoring on top of    *)
(* the review (SourceAuthoring), the two stores of customer confirmations  *)
(* (the reference ConfirmationStore and ConfirmationLedger), the session   *)
(* of the guided demonstration (DemoSession) and the threads of the server *)
(* (WebGateway).  A behaviour is one of a single part.                     *)
(***************************************************************************)
EXTENDS SourceAuthoring, ConfirmationLedger, DemoSession, WebGateway

CONSTANTS Commands, d1
VARIABLES part, invitations, verdicts, operations

\* A command is a record, told apart from the answer that there is none.
ASSUME CommandAssumption ==
    /\ Missing \notin Commands
    /\ \A c \in Commands : c = [op |-> c.op, key |-> c.key, id |-> c.id, token |-> c.token,
                                 version |-> c.version, print |-> c.print, answer |-> c.answer,
                                 at |-> c.at]

Reference == INSTANCE ConfirmationStore

referenceVars == <<invitations, verdicts, operations>>
allVars == <<part, authoringVars, referenceVars, ledgerVars, demoVars, webVars>>

-----------------------------------------------------------------------------
\* Two versions; of the first a replaced and a foreign print, of its
\* invitations one that repeats a token and one that expires later.
Invitation(id, token, version, print, issued) ==
    [id |-> id, token |-> token, version |-> version, print |-> print,
     issued |-> issued, expires |-> issued + 1]

MCCapabilities ==
    {Invitation("i1", "t1", "v1", "p1", 0), Invitation("i2", "t2", "v1", "p1", 1),
     Invitation("i3", "t2", "v2", "p2", 1), Invitation("i2", "t3", "v1", "p9", 1)}

MCCommands ==
    [op : {"o1", "o2"}, key : {"k"}, id : {"i1", "i2"}, token : {"t1", "t2"},
     version : {"v1", "v2"}, print : {"p1", "p2"}, answer : {"CONFIRM", "DECLINE"}, at : {0, 1, 2}]

MCPlan == <<"m1", "m2">>

\* The server is asked for the routes of one subject at a time, from the
\* stage at which that subject begins; malformed bodies come to the routes of
\* the support POC and of the inputs.
Proved == {"prepare", "decision", "freeze", "run"}

Foci ==
    [agreement |-> [poc |-> d1, routes |-> {"prepare", "reissue", "decision", "revision", "closure"},
                    from |-> "drafting", used |-> {}],
     delivery |-> [poc |-> d1, routes |-> {"decision", "freeze", "run", "closure"},
                   from |-> "review", used |-> {"prepare"}],
     inputs |-> [poc |-> d1, routes |-> {"zoom_guided", "meeting", "stt", "source", "proposal",
                                          "definition", "closure"},
                 from |-> "terminal", used |-> Proved],
     import |-> [poc |-> d1, routes |-> {"import", "run", "revision", "closure"},
                 from |-> "frozen", used |-> Proved \ {"run"}],
     support |-> [poc |-> Support, routes |-> {"session", "provider", "closure"},
                  from |-> "drafting", used |-> {}],
     performance |-> [poc |-> Performance, routes |-> {"performance", "create", "closure"},
                      from |-> "drafting", used |-> {}]]

WebParts == DOMAIN Foci

\* The threads of the server are alike.
MCSymmetry == Permutations(WThreads)

\* So are browser sessions and the keys of an execution: the second comes after
\* the first, and of two consents the first is claimed first unless it expired.
SessionsInOrder == \A o \in DOMAIN ops' \ DOMAIN ops :
    /\ ops'[o].session = 2 => \E q \in DOMAIN ops : ops[q].state \notin Terminal
    /\ \A q \in DOMAIN ops : ops[q].state \in {"PREPARED", "AUTHORIZED"} => now >= ops[q].expires
KeysInOrder == 2 \in DOMAIN execs' => 1 \in DOMAIN execs'

\* Consents run from their preparation: the clock stands still while no
\* operation is open, the launch until the first one, and the owners after
\* the last.
WhileOpen ==
    LET over == \A o \in DOMAIN ops : ops[o].state \in Terminal IN
    /\ over => UNCHANGED now
    /\ ops = <<>> /\ ops' = <<>> => UNCHANGED <<shut, lease>>
    /\ over /\ Len(ops) = MaxOps /\ ops' # <<>> => UNCHANGED reviewVars

-----------------------------------------------------------------------------
WebInitAt(f) ==
    /\ wphase = [t \in WThreads |-> "idle"]
    /\ wreq = [t \in WThreads |-> NoRequest]
    /\ answer = NoAnswer
    /\ reserved = [p \in WPOCs |-> 0]
    /\ wclosed = {} /\ capturing = {} /\ warchived = {}
    /\ stage = [[p \in WPOCs |-> "drafting"] EXCEPT ![f.poc] = f.from]
    /\ used = [[p \in WPOCs |-> {}] EXCEPT ![f.poc] = f.used]
    /\ writes = [p \in WPOCs |-> 0]

OnFocus(f) == \A t \in WThreads :
    /\ wphase'[t] # "idle" => wreq'[t].poc = f.poc /\ wreq'[t].route \in f.routes
    /\ wphase'[t] = "body" => wreq'[t].defect = "none" \/ part \in {"inputs", "support"}

MCInit ==
    /\ part \in {"authoring", "reference", "ledger", "demo"} \cup WebParts
    /\ AuthoringInit /\ (part # "authoring" => realm = "SYNTHETIC")
    /\ Reference!StoreInit /\ LedgerInit /\ DemoInit
    /\ WebInitAt(IF part \in WebParts THEN Foci[part] ELSE Foci["support"])

MCNext ==
    /\ UNCHANGED part
    /\ \/ /\ part = "authoring" /\ AuthoringNext /\ WhileOpen /\ SessionsInOrder
          /\ UNCHANGED <<referenceVars, ledgerVars, demoVars, webVars>>
       \/ /\ part = "reference" /\ Reference!StoreNext
          /\ UNCHANGED <<authoringVars, ledgerVars, demoVars, webVars>>
       \/ /\ part = "ledger" /\ LedgerNext
          /\ UNCHANGED <<authoringVars, referenceVars, demoVars, webVars>>
       \/ /\ part = "demo" /\ DemoNext /\ KeysInOrder
          /\ UNCHANGED <<authoringVars, referenceVars, ledgerVars, webVars>>
       \/ /\ part \in WebParts /\ WebNext /\ OnFocus(Foci[part])
          /\ UNCHANGED <<authoringVars, referenceVars, ledgerVars, demoVars>>

MCSpec == MCInit /\ [][MCNext]_allVars

-----------------------------------------------------------------------------
\* A draft leaves for a provider on a live acknowledgement or not at all, once,
\* through the one worker slot, and no claim is left behind by a restart.
AuthoringIsOwned ==
    /\ RevokedIsUnsent
    /\ OneSuccessPerAttempt
    /\ OneChild
    /\ SentIsConsumed
    /\ NoneLeftClaimed

\* The durable ledger is migrated once and never calls itself corrupt, and the
\* decisions of the reference all answer a live invitation.
LedgerIsFaithful == OwnLedgerIsValid /\ MigratedOnce /\ Reference!DecisionsAreInvited

\* What the demonstration proves is the agreement it shows, paid for once by
\* each acknowledgement, and its dashboard only offers what can be done.
DemoIsTrue == ProofIsOfTheAgreement /\ OneCallPerAcknowledgement /\ ActionIsPossible

\* The requests under way are the reservations of the closure guard, and a
\* closed POC captures nothing.
ClosureIsGuarded == ReservationsBalance /\ ClosureEndsCapture

\* The ledger issues as the reference does and loses no invitation, an
\* operation that ended stays as it ended, a result is published on the
\* workflow it was started on, and nothing is written after the closure.
NothingChangesLate ==
    /\ LedgerImplementsStore
    /\ TerminalIsFinal
    /\ PublishedOnTheSameWorkflow
    /\ NoWriteAfterClose
=============================================================================
