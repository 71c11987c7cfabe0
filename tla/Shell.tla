-------------------------------- MODULE Shell --------------------------------
(***************************************************************************)
(* Connections from login to end: runShell, the tutorial gate and the      *)
(* commands that touch the queue (src/cmd/server/ssh_server.go), with      *)
(* EnsurePlayerSession and RunTutorial statement by statement, on servers  *)
(* that start, migrate and die.                                            *)
(*                                                                         *)
(* The lobby is no more here than who is registered and who is queued; the *)
(* steps inside its callers are those of Matchmaking.                      *)
(***************************************************************************)
EXTENDS Migrations, Accounts

CONSTANTS
    Conn,       \* connections open at a time
    MaxLogins,  \* bound on how many there are over time
    MaxFights   \* bound on the tutorial fights of a player

ASSUME ShellConstants == IsFiniteSet(Conn) /\ MaxLogins \in Nat /\ MaxFights \in Nat

VARIABLES
    shell,      \* the goroutine of each connection
    hungUp,     \* connections whose client is gone
    logins,     \* how many there were
    registered, \* who has a session, by server
    queue,      \* who is queued, by server
    fought      \* history: how many tutorial fights each player finished

lobbies   == <<registered, queue>>
shellVars == <<shell, hungUp, logins, lobbies, fought>>
vars      == <<bootVars, dbVars, shellVars>>

(***************************************************************************)
(* pc is the call the goroutine is about to make; it waits for a line in   *)
(* "guided" (the prompts of the tutorial) and in "prompt".  completed is   *)
(* TutorialCompleted in the shell's own copy of the profile.               *)
(***************************************************************************)
Closed == [pc |-> "closed", server |-> Nobody, handle |-> Nobody, id |-> Nobody,
           completed |-> FALSE]

Login    == {"lookup", "create", "again", "ensure", "read", "register"}
Tutorial == {"guided", "fight", "record", "mark"}
Session  == Tutorial \cup {"prompt", "leave"}

Init ==
    /\ BootInit /\ DBInit
    /\ shell = [c \in Conn |-> Closed]
    /\ hungUp = {}
    /\ logins = 0
    /\ registered = [s \in Server |-> {}]
    /\ queue = [s \in Server |-> {}]
    /\ fought = [p \in Identity |-> 0]

----------------------------------------------------------------------------
\* Who c is, and where.
Player(c) == shell[c].id
On(c)     == shell[c].server

Goes(c, from, to) == shell[c].pc = from /\ shell' = [shell EXCEPT ![c].pc = to]

\* The channel is closed: nothing of the connection is left.
Closes(c) ==
    /\ shell' = [shell EXCEPT ![c] = Closed]
    /\ hungUp' = hungUp \ {c}

Connect(c, s, h) ==
    /\ shell[c].pc = "closed" /\ boot[s].pc = "serving"
    /\ logins < MaxLogins
    /\ logins' = logins + 1
    /\ shell' = [shell EXCEPT ![c] = [pc |-> "lookup", server |-> s, handle |-> h, id |-> Nobody,
                                      completed |-> FALSE]]
    /\ UNCHANGED <<bootVars, dbVars, hungUp, lobbies, fought>>

\* GetByHandle, and the one again after somebody else has created the player.
LookUp(c) ==
    /\ shell[c].pc \in {"lookup", "again"}
    /\ LET found == players[shell[c].handle]
       IN  \/ /\ found # Nobody
              /\ shell' = [shell EXCEPT ![c].pc = "ensure", ![c].id = found]
           \/ found = Nobody /\ Goes(c, "lookup", "create")
    /\ UNCHANGED <<bootVars, dbVars, hungUp, logins, lobbies, fought>>

CreatePlayer(c) ==
    /\ shell[c].pc = "create"
    /\ \E p \in Identity :
          /\ InsertPlayer(shell[c].handle, p)
          /\ shell' = [shell EXCEPT ![c].pc = "ensure", ![c].id = p]
    /\ UNCHANGED <<bootVars, hungUp, logins, lobbies, fought>>

IsUniqueViolation(c) ==
    /\ Goes(c, "create", "again")
    /\ players[shell[c].handle] # Nobody
    /\ UNCHANGED <<bootVars, dbVars, hungUp, logins, lobbies, fought>>

EnsureProfile(c) ==
    /\ Goes(c, "ensure", "read")
    /\ InsertProfile(Player(c))
    /\ UNCHANGED <<bootVars, hungUp, logins, lobbies, fought>>

ReadProfile(c) ==
    /\ shell[c].pc = "read"
    /\ shell' = [shell EXCEPT ![c].pc = "register", ![c].completed = profiles[Player(c)].completed]
    /\ UNCHANGED <<bootVars, dbVars, hungUp, logins, lobbies, fought>>

\* Any statement of the login may fail, or succeed and its answer get lost.
LoginFails(c) ==
    /\ shell[c].pc \in Login
    /\ Closes(c)
    /\ \/ UNCHANGED dbVars
       \/ shell[c].pc = "create" /\ \E p \in Identity : InsertPlayer(shell[c].handle, p)
       \/ shell[c].pc = "ensure" /\ InsertProfile(Player(c))
    /\ UNCHANGED <<bootVars, logins, lobbies, fought>>

\* Register refuses a player who has a session on this server.
Register(c) ==
    /\ shell[c].pc = "register"
    /\ Player(c) \notin registered[On(c)]
    /\ registered' = [registered EXCEPT ![On(c)] = @ \cup {Player(c)}]
    /\ Goes(c, "register", IF shell[c].completed THEN "prompt" ELSE "guided")
    /\ UNCHANGED <<bootVars, dbVars, hungUp, logins, queue, fought>>

----------------------------------------------------------------------------
\* Fault: the tutorial is marked as completed when its fight starts.
FollowPromptsMarked(c) ==
    /\ Goes(c, "guided", "fight")
    /\ fought[Player(c)] < MaxFights
    /\ CompleteProfile(Player(c))
    /\ UNCHANGED <<bootVars, hungUp, logins, lobbies, fought>>

\* The client has typed what the three prompts ask for.
FollowPrompts(c) ==
    /\ Goes(c, "guided", "fight")
    /\ fought[Player(c)] < MaxFights
    /\ UNCHANGED <<bootVars, dbVars, hungUp, logins, lobbies, fought>>

Fight(c) ==
    /\ Goes(c, "fight", "record")
    /\ fought' = [fought EXCEPT ![Player(c)] = @ + 1]
    /\ UNCHANGED <<bootVars, dbVars, hungUp, logins, lobbies>>

\* The errors of CreateTutorialRun and MarkTutorialCompleted are dropped.
RecordRun(c) ==
    /\ Goes(c, "record", "mark")
    /\ InsertRun(Player(c)) \/ UNCHANGED dbVars
    /\ UNCHANGED <<bootVars, hungUp, logins, lobbies, fought>>

MarkCompleted(c) ==
    /\ shell[c].pc = "mark"
    /\ CompleteProfile(Player(c)) \/ UNCHANGED dbVars
    /\ shell' = [shell EXCEPT ![c].pc = "prompt", ![c].completed = TRUE]
    /\ UNCHANGED <<bootVars, hungUp, logins, lobbies, fought>>

----------------------------------------------------------------------------
\* q, when the gate is open; a busy player is refused, which changes nothing.
Play(c) ==
    /\ shell[c].pc = "prompt" /\ shell[c].completed
    /\ Player(c) \notin queue[On(c)]
    /\ queue' = [queue EXCEPT ![On(c)] = @ \cup {Player(c)}]
    /\ UNCHANGED <<bootVars, dbVars, shell, hungUp, logins, registered, fought>>

LeaveQueue(c) ==
    /\ shell[c].pc = "prompt"
    /\ Player(c) \in queue[On(c)]
    /\ queue' = [queue EXCEPT ![On(c)] = @ \ {Player(c)}]
    /\ UNCHANGED <<bootVars, dbVars, shell, hungUp, logins, registered, fought>>

\* tutorial retry, whatever the player is doing: in the queue, in a match.
TutorialRetry(c) ==
    /\ Goes(c, "prompt", "guided")
    /\ UNCHANGED <<bootVars, dbVars, hungUp, logins, lobbies, fought>>

Quit(c) ==
    /\ Goes(c, "prompt", "leave") \/ Goes(c, "guided", "leave")
    /\ UNCHANGED <<bootVars, dbVars, hungUp, logins, lobbies, fought>>

HangUp(c) ==
    /\ shell[c].pc # "closed" /\ c \notin hungUp
    /\ hungUp' = hungUp \cup {c}
    /\ UNCHANGED <<bootVars, dbVars, shell, logins, lobbies, fought>>

\* Fault: the tutorial goes on asking.
EndOfInputAtPrompt(c) ==
    /\ c \in hungUp
    /\ Goes(c, "prompt", "leave")
    /\ UNCHANGED <<bootVars, dbVars, hungUp, logins, lobbies, fought>>

\* The next Scan returns false; the shell may be in a call until then.
EndOfInput(c) ==
    /\ c \in hungUp
    /\ Goes(c, "prompt", "leave") \/ Goes(c, "guided", "leave")
    /\ UNCHANGED <<bootVars, dbVars, hungUp, logins, lobbies, fought>>

\* The deferred calls: Dequeue, Unregister, close.
Leave(c) ==
    /\ shell[c].pc = "leave"
    /\ queue' = [queue EXCEPT ![On(c)] = @ \ {Player(c)}]
    /\ registered' = [registered EXCEPT ![On(c)] = @ \ {Player(c)}]
    /\ Closes(c)
    /\ UNCHANGED <<bootVars, dbVars, logins, fought>>

\* Fault: the deferred calls are set up before Register, so that a refused shell makes them.
RefuseAndUnregister(c) ==
    /\ shell[c].pc = "register"
    /\ Player(c) \in registered[On(c)]
    /\ queue' = [queue EXCEPT ![On(c)] = @ \ {Player(c)}]
    /\ registered' = [registered EXCEPT ![On(c)] = @ \ {Player(c)}]
    /\ Closes(c)
    /\ UNCHANGED <<bootVars, dbVars, logins, fought>>

RefuseSession(c) ==
    /\ shell[c].pc = "register"
    /\ Player(c) \in registered[On(c)]
    /\ Closes(c)
    /\ UNCHANGED <<bootVars, dbVars, logins, lobbies, fought>>

\* The queue loop takes a player for a match, or for his timeout.
Popped(s, p) ==
    /\ p \in queue[s]
    /\ queue' = [queue EXCEPT ![s] = @ \ {p}]
    /\ UNCHANGED <<bootVars, dbVars, shell, hungUp, logins, registered, fought>>

\* A server ends with all its goroutines; the database stays.
ServerDies(s) ==
    /\ Die(s)
    /\ LET gone == {c \in Conn : On(c) = s}
       IN  /\ shell' = [c \in Conn |-> IF c \in gone THEN Closed ELSE shell[c]]
           /\ hungUp' = hungUp \ gone
    /\ registered' = [registered EXCEPT ![s] = {}]
    /\ queue' = [queue EXCEPT ![s] = {}]
    /\ UNCHANGED <<dbVars, logins, fought>>

----------------------------------------------------------------------------
\* What the goroutine of c does by itself.
ShellStep(c) ==
    \/ LookUp(c) \/ CreatePlayer(c) \/ IsUniqueViolation(c) \/ EnsureProfile(c) \/ ReadProfile(c)
    \/ LoginFails(c) \/ Register(c) \/ RefuseSession(c)
    \/ Fight(c) \/ RecordRun(c) \/ MarkCompleted(c) \/ EndOfInput(c) \/ Leave(c)

\* What its client does.
Command(c) ==
    \/ \E s \in Server, h \in Handle : Connect(c, s, h)
    \/ FollowPrompts(c) \/ Play(c) \/ LeaveQueue(c) \/ TutorialRetry(c) \/ Quit(c) \/ HangUp(c)

ServerStep(s) ==
    \/ (Start(s) \/ BootStep(s)) /\ UNCHANGED <<dbVars, shellVars>>
    \/ ServerDies(s)
    \/ \E p \in Identity : Popped(s, p)

Next ==
    \/ \E c \in Conn : ShellStep(c) \/ Command(c)
    \/ \E s \in Server : ServerStep(s)

Fairness == \A c \in Conn : WF_vars(ShellStep(c))

Spec == Init /\ [][Next]_vars /\ Fairness

----------------------------------------------------------------------------
TypeOK ==
    /\ BootTypeOK /\ DBTypeOK
    /\ shell \in [Conn -> [pc : {"closed"} \cup Login \cup Session, server : Server \cup {Nobody},
                           handle : Handle \cup {Nobody}, id : Identity \cup {Nobody},
                           completed : BOOLEAN]]
    /\ \A c \in Conn :
          IF shell[c].pc = "closed"
          THEN shell[c] = Closed
          ELSE /\ shell[c].server \in Server /\ shell[c].handle \in Handle
               /\ Player(c) = Nobody <=> shell[c].pc \in {"lookup", "create", "again"}
               /\ shell[c].completed => shell[c].pc \in {"register"} \cup Session
    /\ hungUp \subseteq {c \in Conn : shell[c].pc # "closed"}
    /\ logins \in 0..MaxLogins
    /\ registered \in [Server -> SUBSET Identity]
    /\ queue \in [Server -> SUBSET Identity]
    /\ fought \in [Identity -> Nat]

\* A handle is one player for ever and no player has two handles, however many first logins
\* there are at the same time, on whatever servers, and whatever answers get lost
\* (EnsurePlayerSession, isUniqueViolation).
SameIdentity ==
    /\ \A c \in Conn : Player(c) # Nobody => players[shell[c].handle] = Player(c)
    /\ \A h, i \in Handle : players[h] = players[i] /\ h # i => players[h] = Nobody

\* docs/m3-ssh-protocol.md, "Queue command q is blocked until tutorial completion.": nobody is
\* queued who has not fought a tutorial to its end, in this session or in an earlier one,
\* on whatever server and through whatever failures (runShell, RunTutorial).
QueueGate == \A s \in Server : \A p \in queue[s] : fought[p] > 0

\* The connections with a session on s.
Owners(s) == {c \in Conn : shell[c].pc \in Session /\ On(c) = s}

\* Everybody who is registered, and so everybody who is queued, has one shell that will
\* dequeue and unregister him when it ends; no shell ends the session of another one, and
\* none loses its own (the order of Register and the deferred calls in runShell).
OneSessionEach ==
    \A s \in Server :
        /\ registered[s] = {Player(c) : c \in Owners(s)}
        /\ queue[s] \subseteq registered[s]
        /\ \A c, d \in Owners(s) : Player(c) = Player(d) => c = d

\* Every recorded run is counted once, also when a player is in two tutorials on two
\* servers; a run that is not recorded is not counted (CreateTutorialRun).
RunsCounted == \A p \in Identity : profiles[p].runs = runs[p] /\ runs[p] <= fought[p]

\* docs/m5-telemetry-antibot-tutorial-spectator.md, "tutorial retry reruns tutorial without
\* re-locking PvP queue access": a completion that is stored stays, with its time, whatever
\* logins, retries and second sessions write afterwards.
CompletionIsFinal ==
    [][\A p \in Identity : profiles[p].completed =>
          profiles'[p].completed /\ profiles'[p].at = profiles[p].at]_vars

\* A client that is gone does not keep his player's session for ever, wherever his shell is:
\* he could not log in again (runShell, runTutorialFlow).
HangUpsEnd == \A c \in Conn : c \in hungUp ~> c \notin hungUp
============================================================================
