------------------------------ MODULE Migrations ------------------------------
(***************************************************************************)
(* The start of a server: ApplyMigrations of src/internal/storage, called  *)
(* by main before anything else, and the death of a server.                *)
(*                                                                         *)
(* Several servers, of the same release or not, start on one database.     *)
(* Each reads once which versions are applied and then takes the pending   *)
(* ones of its release in ascending order, a transaction for each.  An     *)
(* error ends the process (log.Fatalf); whoever runs it may start it again.*)
(***************************************************************************)
EXTENDS Integers, FiniteSets

CONSTANTS
    Server,     \* server processes
    Files,      \* the versions of each server's db/migrations
    MaxStarts   \* bound on how often servers are started

ASSUME MigrationsConstants ==
    /\ Files \in [Server -> SUBSET Nat]
    /\ \A s \in Server : IsFiniteSet(Files[s])
    /\ MaxStarts \in Nat

VARIABLES
    applied,    \* the rows of schema_migrations
    boot,       \* how far each server is
    starts,     \* how many starts there were
    disturbed   \* history: whether a server or a statement ever failed

bootVars == <<applied, boot, starts, disturbed>>

None == -1      \* no transaction is open

BootStates == {"down", "loading", "migrating", "committing", "serving", "refused"}

\* known: the versions the server takes for applied, itself or by somebody else.
At(pc, known) == [pc |-> pc, known |-> known, tx |-> None]
Down          == At("down", {})

BootInit ==
    /\ applied = {}
    /\ boot = [s \in Server |-> Down]
    /\ starts = 0
    /\ disturbed = FALSE

----------------------------------------------------------------------------
\* Fault: only what is above the latest version is pending.
PendingAbove(s) == {v \in Files[s] : \A u \in boot[s].known : u < v}

Pending(s) == Files[s] \ boot[s].known

\* Fault: files are taken as the directory lists them, 10 before 9.
TakesAny(s, v) == v \in Pending(s)

Takes(s, v) == v \in Pending(s) /\ \A u \in Pending(s) : v <= u

Start(s) ==
    /\ boot[s].pc \in {"down", "refused"}
    /\ starts < MaxStarts
    /\ starts' = starts + 1
    /\ boot' = [boot EXCEPT ![s] = At("loading", {})]
    /\ UNCHANGED <<applied, disturbed>>

LoadApplied(s) ==
    /\ boot[s].pc = "loading"
    /\ boot' = [boot EXCEPT ![s] = At("migrating", applied)]
    /\ UNCHANGED <<applied, starts, disturbed>>

\* The migration and its row are written; the key of the row makes a second
\* server wait for the transaction of the first.
Migrate(s) ==
    /\ boot[s].pc = "migrating"
    /\ \E v \in Pending(s) :
          /\ Takes(s, v)
          /\ v \notin applied
          /\ \A r \in Server : boot[r].tx # v
          /\ boot' = [boot EXCEPT ![s] = [pc |-> "committing", known |-> boot[s].known, tx |-> v]]
    /\ UNCHANGED <<applied, starts, disturbed>>

\* The row is there by now: the insert fails, the server gives up.
Refuse(s) ==
    /\ boot[s].pc = "migrating"
    /\ \E v \in applied : Takes(s, v)
    /\ boot' = [boot EXCEPT ![s] = At("refused", {})]
    /\ UNCHANGED <<applied, starts, disturbed>>

\* Fault: the error of the commit is dropped.
CommitUnheeded(s) ==
    /\ boot[s].pc = "committing"
    /\ applied' \in {applied, applied \cup {boot[s].tx}}
    /\ boot' = [boot EXCEPT ![s] = At("migrating", boot[s].known \cup {boot[s].tx})]
    /\ UNCHANGED <<starts, disturbed>>

Commit(s) ==
    /\ boot[s].pc = "committing"
    /\ applied' = applied \cup {boot[s].tx}
    /\ boot' = [boot EXCEPT ![s] = At("migrating", boot[s].known \cup {boot[s].tx})]
    /\ UNCHANGED <<starts, disturbed>>

Serve(s) ==
    /\ boot[s].pc = "migrating"
    /\ Pending(s) = {}
    /\ boot' = [boot EXCEPT ![s] = At("serving", boot[s].known)]
    /\ UNCHANGED <<applied, starts, disturbed>>

\* A statement fails or the process dies; what was not committed is undone,
\* and the answer to a commit may be what is lost.
Die(s) ==
    /\ boot[s].pc \notin {"down", "refused"}
    /\ boot' = [boot EXCEPT ![s] = Down]
    /\ disturbed' = TRUE
    /\ \/ UNCHANGED applied
       \/ boot[s].tx # None /\ applied' = applied \cup {boot[s].tx}
    /\ UNCHANGED starts

BootStep(s) == LoadApplied(s) \/ Migrate(s) \/ Refuse(s) \/ Commit(s) \/ Serve(s)

----------------------------------------------------------------------------
BootTypeOK ==
    /\ applied \subseteq UNION {Files[s] : s \in Server}
    /\ boot \in [Server -> [pc : BootStates, known : SUBSET applied, tx : Nat \cup {None}]]
    /\ \A s \in Server :
          boot[s].tx \in IF boot[s].pc = "committing" THEN Pending(s) ELSE {None}
    /\ starts \in 0..MaxStarts
    /\ disturbed \in BOOLEAN

\* README.md, "Startup applies pending migrations automatically in order.": before a server
\* runs a migration every lower version of its release is applied, and before it serves
\* all of them are, whatever other servers, of other releases too, do to the
\* database in between, and wherever one dies (ApplyMigrations).
MigratedInOrder ==
    \A s \in Server :
        /\ boot[s].pc = "committing" => {v \in Files[s] : v < boot[s].tx} \subseteq applied
        /\ boot[s].pc = "serving" => Files[s] \subseteq applied

\* Servers that start together may defeat each other, but never all of them: unless a
\* statement failed or a server died, one of those that were started is still coming up or
\* serves.  It is the common order that decides it (loadMigrations, ApplyMigrations).
SomebodyGetsThrough ==
    starts > 0 /\ ~disturbed =>
        \E s \in Server : boot[s].pc \notin {"down", "refused"}
============================================================================
