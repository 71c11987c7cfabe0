----------------------------- MODULE ShellProofs -----------------------------
(***************************************************************************)
(* What holds of the servers, the players' tables and the connections for  *)
(* any number of each, any releases and any failures.                      *)
(*                                                                         *)
(* The start of the servers is proved first: it shares no variable with    *)
(* the rest.  The heart of it is that among servers that start together    *)
(* there is always one that is ahead of all others.                        *)
(***************************************************************************)
EXTENDS Shell, FiniteSetTheorems, TLAPS

----------------------------------------------------------------------------
(* The start of the servers.                                                *)

\* What is committed next is the least that is pending.
TakesTheLeast == \A s \in Server : boot[s].pc = "committing" => Takes(s, boot[s].tx)

\* Whatever is left for r to do lies above everything that is applied or being applied
\* by somebody else: nobody can defeat r.
Ahead(r) ==
    /\ boot[r].pc \in {"migrating", "committing", "serving"}
    /\ \A v \in Pending(r) :
          /\ \A u \in applied : u < v
          /\ \A q \in Server \ {r} : boot[q].tx < v

Unstarted == \A s \in Server : boot[s].pc = "down"

\* The first of those that started has loaded nothing yet, and the database is empty.
NothingLoaded ==
    /\ applied = {}
    /\ \A s \in Server : boot[s].tx = None
    /\ \E s \in Server : boot[s].pc = "loading"

SomebodyIsAhead ==
    ~disturbed =>
        \/ starts = 0 /\ applied = {} /\ Unstarted
        \/ starts > 0 /\ NothingLoaded
        \/ starts > 0 /\ \E r \in Server : Ahead(r)

BootInv == BootTypeOK /\ MigratedInOrder /\ TakesTheLeast /\ SomebodyIsAhead

BootNext ==
    \/ \E s \in Server : Start(s) \/ BootStep(s) \/ Die(s)
    \/ UNCHANGED bootVars

LEMMA BootTypes ==
    ASSUME BootTypeOK
    PROVE  /\ boot \in [Server -> [pc : BootStates, known : SUBSET Nat, tx : Nat \cup {None}]]
           /\ applied \subseteq Nat /\ starts \in Nat
           /\ \A s \in Server :
                /\ Files[s] \subseteq Nat
                /\ boot[s].known \subseteq applied
                /\ Pending(s) \subseteq Nat
                /\ boot[s].tx \in Nat \cup {None}
                /\ boot[s].pc \in BootStates
                /\ boot[s].pc # "committing" => boot[s].tx = None
                /\ boot[s].pc = "committing" => boot[s].tx \in Pending(s)
<1>1. \A s \in Server : Files[s] \subseteq Nat
  BY MigrationsConstants
<1>2. applied \subseteq Nat /\ starts \in Nat
  BY <1>1, MigrationsConstants DEF BootTypeOK
<1>3. boot \in [Server -> [pc : BootStates, known : SUBSET applied, tx : Nat \cup {None}]]
  BY DEF BootTypeOK
<1>4. \A s \in Server : boot[s] \in [pc : BootStates, known : SUBSET applied, tx : Nat \cup {None}]
  BY <1>3
<1>5. [pc : BootStates, known : SUBSET applied, tx : Nat \cup {None}]
        \subseteq [pc : BootStates, known : SUBSET Nat, tx : Nat \cup {None}]
  BY <1>2
<1>6. QED
  BY <1>1, <1>2, <1>3, <1>4, <1>5 DEF BootTypeOK, Pending

LEMMA AtFields ==
    \A pc, known : At(pc, known).pc = pc /\ At(pc, known).known = known /\ At(pc, known).tx = None
  BY DEF At

\* A step changes one server only; the others keep what they are and have.
LEMMA OneServerMoves ==
    ASSUME BootTypeOK, NEW s \in Server, Start(s) \/ BootStep(s) \/ Die(s)
    PROVE  /\ boot' = [boot EXCEPT ![s] = boot'[s]]
           /\ \A r \in Server \ {s} : boot'[r] = boot[r] /\ Pending(r)' = Pending(r)
<1>1. boot \in [Server -> [pc : BootStates, known : SUBSET Nat, tx : Nat \cup {None}]]
  BY BootTypes
<1>2. \E x : boot' = [boot EXCEPT ![s] = x]
  BY DEF Start, BootStep, LoadApplied, Migrate, Refuse, Commit, Serve, Die
<1>3. QED
  BY <1>1, <1>2 DEF Pending

\* What each kind of step does to the server that takes it.
LEMMA StepOfServer ==
    ASSUME BootTypeOK, NEW s \in Server
    PROVE  /\ Start(s) => boot'[s] = At("loading", {})
           /\ LoadApplied(s) => boot'[s] = At("migrating", applied)
           /\ Migrate(s) => \E v \in Pending(s) :
                /\ Takes(s, v) /\ v \notin applied /\ \A r \in Server : boot[r].tx # v
                /\ boot'[s] = [pc |-> "committing", known |-> boot[s].known, tx |-> v]
           /\ Refuse(s) => boot'[s] = At("refused", {})
           /\ Commit(s) => boot'[s] = At("migrating", boot[s].known \cup {boot[s].tx})
           /\ Serve(s) => boot'[s] = At("serving", boot[s].known)
           /\ Die(s) => boot'[s] = Down
<1>1. boot \in [Server -> [pc : BootStates, known : SUBSET Nat, tx : Nat \cup {None}]]
  BY BootTypes
<1>2. QED
  BY <1>1 DEF Start, LoadApplied, Migrate, Refuse, Commit, Serve, Die

LEMMA BootKeepsTypes ==
    ASSUME BootTypeOK, BootNext
    PROVE  BootTypeOK' /\ applied \subseteq applied'
<1> DEFINE Row(S) == [pc : BootStates, known : SUBSET S, tx : Nat \cup {None}]
<1>1. CASE UNCHANGED bootVars
  BY <1>1 DEF BootTypeOK, bootVars, Pending
<1>2. ASSUME NEW s \in Server, Start(s) \/ BootStep(s) \/ Die(s)
      PROVE  BootTypeOK' /\ applied \subseteq applied'
  <2>1. /\ boot' = [boot EXCEPT ![s] = boot'[s]]
        /\ \A r \in Server \ {s} : boot'[r] = boot[r] /\ Pending(r)' = Pending(r)
    BY <1>2, OneServerMoves
  <2>2. /\ boot \in [Server -> Row(applied)] /\ boot[s] \in Row(applied)
        /\ boot[s].known \subseteq applied /\ boot[s].tx \in Nat \cup {None}
        /\ applied \subseteq UNION {Files[r] : r \in Server}
        /\ Pending(s) \subseteq Nat /\ Pending(s) \subseteq Files[s]
    BY BootTypes DEF BootTypeOK, Pending
  <2>3. /\ applied \subseteq applied' /\ applied' \subseteq UNION {Files[r] : r \in Server}
        /\ starts' \in 0..MaxStarts /\ disturbed' \in BOOLEAN
    <3>1. boot[s].tx # None => boot[s].tx \in Files[s]
      BY BootTypes, <2>2
    <3>2. applied' = applied \/ (boot[s].tx # None /\ applied' = applied \cup {boot[s].tx})
      <4>1. Commit(s) => boot[s].tx \in Nat
        BY BootTypes DEF Commit
      <4>2. Commit(s) => boot[s].tx # None /\ applied' = applied \cup {boot[s].tx}
        BY <4>1 DEF Commit, None
      <4>3. Die(s) => applied' = applied \/ (boot[s].tx # None /\ applied' = applied \cup {boot[s].tx})
        BY DEF Die
      <4>4. Start(s) \/ LoadApplied(s) \/ Migrate(s) \/ Refuse(s) \/ Serve(s) => applied' = applied
        BY DEF Start, LoadApplied, Migrate, Refuse, Serve
      <4>5. QED
        BY <1>2, <4>2, <4>3, <4>4 DEF BootStep
    <3>3. starts' \in 0..MaxStarts /\ disturbed' \in BOOLEAN
      <4>1. Start(s) => starts' \in 0..MaxStarts /\ disturbed' \in BOOLEAN
        BY MigrationsConstants DEF BootTypeOK, Start
      <4>2. Die(s) => starts' \in 0..MaxStarts /\ disturbed' \in BOOLEAN
        BY DEF BootTypeOK, Die
      <4>3. BootStep(s) => starts' \in 0..MaxStarts /\ disturbed' \in BOOLEAN
        BY DEF BootTypeOK, BootStep, LoadApplied, Migrate, Refuse, Commit, Serve
      <4>4. QED
        BY <1>2, <4>1, <4>2, <4>3
    <3>4. QED
      BY <2>2, <3>1, <3>2, <3>3
  <2> HIDE DEF Row
  <2>a. ASSUME NEW pc \in BootStates \ {"committing"}, NEW known \in SUBSET applied',
               boot'[s] = At(pc, known)
        PROVE  /\ boot'[s] \in Row(applied')
               /\ boot'[s].tx = None /\ boot'[s].pc # "committing"
    BY <2>a DEF At, Row
  <2>4. /\ boot'[s] \in Row(applied')
        /\ boot'[s].tx \in IF boot'[s].pc = "committing" THEN Files[s] \ boot'[s].known ELSE {None}
    <3>1. CASE Start(s) \/ LoadApplied(s) \/ Refuse(s) \/ Die(s)
      <4>1. PICK pc \in BootStates \ {"committing"}, known \in {{}, applied} : boot'[s] = At(pc, known)
        BY <3>1, StepOfServer DEF Down, BootStates
      <4>2. known \subseteq applied'
        BY <2>3, <4>1
      <4>3. QED
        BY <2>a, <4>1, <4>2
    <3>2. CASE Migrate(s)
      <4>1. PICK v \in Pending(s) : boot'[s] = [pc |-> "committing", known |-> boot[s].known, tx |-> v]
        BY <3>2, StepOfServer
      <4>2. QED
        BY <2>2, <2>3, <4>1 DEF BootStates, Pending, Row
    <3>3. CASE Commit(s)
      <4>1. boot[s].known \cup {boot[s].tx} \subseteq applied'
        BY <2>2, <3>3 DEF Commit
      <4>2. QED
        BY <2>a, <3>3, <4>1, StepOfServer DEF BootStates
    <3>4. CASE Serve(s)
      <4>1. boot[s].known \subseteq applied'
        BY <2>2, <2>3
      <4>2. QED
        BY <2>a, <3>4, <4>1, StepOfServer DEF BootStates
    <3>5. QED
      BY <1>2, <3>1, <3>2, <3>3, <3>4 DEF BootStep
  <2>5. boot' \in [Server -> Row(applied')]
    <3>1. Row(applied) \subseteq Row(applied')
      BY <2>3 DEF Row
    <3>2. QED
      BY <2>1, <2>2, <2>4, <3>1
  <2>6. ASSUME NEW r \in Server
        PROVE  boot'[r].tx \in IF boot'[r].pc = "committing" THEN Pending(r)' ELSE {None}
    <3>1. CASE r = s
      BY <2>4, <3>1 DEF Pending
    <3>2. CASE r # s
      BY <2>1, <3>2 DEF BootTypeOK
    <3>3. QED
      BY <3>1, <3>2
  <2>7. QED
    BY <2>3, <2>5, <2>6 DEF BootTypeOK, Row
<1>3. QED
  BY <1>1, <1>2 DEF BootNext

\* Every migration comes after those below it, and serving after all.
LEMMA BootKeepsOrder ==
    ASSUME BootTypeOK, MigratedInOrder, TakesTheLeast, BootNext
    PROVE  MigratedInOrder' /\ TakesTheLeast'
<1>1. CASE UNCHANGED bootVars
  BY <1>1 DEF MigratedInOrder, TakesTheLeast, Takes, Pending, bootVars
<1>2. ASSUME NEW s \in Server, Start(s) \/ BootStep(s) \/ Die(s)
      PROVE  MigratedInOrder' /\ TakesTheLeast'
  <2>1. \A r \in Server \ {s} : boot'[r] = boot[r] /\ Pending(r)' = Pending(r)
    BY <1>2, OneServerMoves
  <2>2. applied \subseteq applied'
    BY <1>2, BootKeepsTypes DEF BootNext
  <2>3. boot[s].known \subseteq applied /\ Files[s] \subseteq Nat
    BY BootTypes
  <2>4. /\ boot'[s].pc = "committing" =>
              /\ {v \in Files[s] : v < boot'[s].tx} \subseteq applied
              /\ Takes(s, boot[s].tx)'
        /\ boot'[s].pc = "serving" => Files[s] \subseteq applied
    <3>1. CASE Start(s) \/ LoadApplied(s) \/ Refuse(s) \/ Die(s) \/ Commit(s)
      <4>1. PICK pc \in {"loading", "migrating", "refused", "down"} : \E known : boot'[s] = At(pc, known)
        BY <3>1, StepOfServer DEF Down
      <4>2. QED
        BY <4>1, AtFields
    <3>2. CASE Migrate(s)
      <4>1. PICK v \in Pending(s) :
                Takes(s, v) /\ boot'[s] = [pc |-> "committing", known |-> boot[s].known, tx |-> v]
        BY <3>2, StepOfServer
      <4>2. Pending(s)' = Pending(s) /\ boot'[s].tx = v
        BY <4>1 DEF Pending
      <4>3. \A u \in Files[s] : u < v => u \notin Pending(s)
        BY <2>3, <4>1 DEF Takes, Pending
      <4>4. QED
        BY <2>3, <4>1, <4>2, <4>3 DEF Takes, Pending
    <3>3. CASE Serve(s)
      <4>1. boot'[s].pc = "serving" /\ Pending(s) = {}
        <5>1. boot'[s] = At("serving", boot[s].known)
          BY <3>3, StepOfServer
        <5>2. QED
          BY <3>3, <5>1, AtFields DEF Serve
      <4>2. QED
        BY <2>3, <4>1 DEF Pending
    <3>4. QED
      BY <1>2, <3>1, <3>2, <3>3 DEF BootStep
  <2>5. \A r \in Server : Takes(r, boot[r].tx) /\ r # s => Takes(r, boot[r].tx)'
    <3> SUFFICES ASSUME NEW r \in Server \ {s}, Takes(r, boot[r].tx)
                 PROVE  Takes(r, boot[r].tx)'
      OBVIOUS
    <3>1. boot'[r].tx = boot[r].tx /\ Pending(r)' = Pending(r)
      BY <2>1
    <3>2. QED
      BY <3>1 DEF Takes
  <2>6. ASSUME NEW r \in Server
        PROVE  /\ boot'[r].pc = "committing" =>
                     /\ {v \in Files[r] : v < boot'[r].tx} \subseteq applied'
                     /\ Takes(r, boot[r].tx)'
               /\ boot'[r].pc = "serving" => Files[r] \subseteq applied'
    <3>1. CASE r = s
      BY <2>2, <2>4, <3>1
    <3>2. CASE r # s
      <4>1. boot'[r] = boot[r]
        BY <2>1, <3>2
      <4>2. QED
        BY <2>2, <2>5, <3>2, <4>1 DEF MigratedInOrder, TakesTheLeast
    <3>3. QED
      BY <3>1, <3>2
  <2>7. QED
    BY <2>6 DEF MigratedInOrder, TakesTheLeast
<1>3. QED
  BY <1>1, <1>2 DEF BootNext

\* As long as nothing went wrong: a server that is ahead stays so, or the one that takes
\* the next migration before it is ahead of it.
LEMMA AheadStays ==
    ASSUME BootTypeOK, TakesTheLeast, NEW s \in Server, Start(s) \/ BootStep(s),
           NEW r \in Server, Ahead(r)
    PROVE  \E q \in Server : Ahead(q)'
<1>1. \A q \in Server \ {s} : boot'[q] = boot[q] /\ Pending(q)' = Pending(q)
  BY OneServerMoves
<1>2. /\ applied \subseteq Nat /\ Pending(r) \subseteq Nat /\ Pending(s) \subseteq Nat
      /\ \A q \in Server : boot[q].tx \in Nat \cup {None}
  BY BootTypes
<1>3. CASE Start(s) \/ LoadApplied(s) \/ Serve(s)
  <2>1. PICK pc \in BootStates : \E known : boot'[s] = At(pc, known)
    BY <1>3, StepOfServer DEF BootStates
  <2>2. boot'[s].tx = None /\ applied' = applied
    BY <1>3, <2>1, AtFields DEF Start, LoadApplied, Serve
  <2>3. CASE r # s
    <3>1. \A q \in Server \ {r}, v \in Pending(r) : boot'[q].tx < v
      BY <1>1, <1>2, <2>2 DEF Ahead, None
    <3>2. Ahead(r)'
      BY <1>1, <2>2, <2>3, <3>1 DEF Ahead
    <3>3. QED
      BY <3>2
  <2>4. CASE r = s
    <3>1. Serve(s)
      BY <1>3, <2>4 DEF Ahead, Start, LoadApplied
    <3>2. boot'[s].pc = "serving" /\ boot'[s].known = boot[s].known /\ Pending(s) = {}
      <4>1. boot'[s] = At("serving", boot[s].known)
        BY <3>1, StepOfServer
      <4>2. QED
        BY <3>1, <4>1, AtFields DEF Serve
    <3>3. Ahead(s)'
      BY <3>2 DEF Ahead, Pending
    <3>4. QED
      BY <3>3
  <2>5. QED
    BY <2>3, <2>4
<1>4. CASE Refuse(s)
  <2>1. PICK v \in applied : Takes(s, v)
    BY <1>4 DEF Refuse
  <2>2. r # s
    BY <1>2, <2>1 DEF Ahead, Takes
  <2>3. boot'[s].tx = None /\ applied' = applied
    <3>1. boot'[s] = At("refused", {})
      BY <1>4, StepOfServer
    <3>2. QED
      BY <1>4, <3>1, AtFields DEF Refuse
  <2>4. \A q \in Server \ {r}, u \in Pending(r) : boot'[q].tx < u
    BY <1>1, <1>2, <2>3 DEF Ahead, None
  <2>5. Ahead(r)'
    BY <1>1, <2>2, <2>3, <2>4 DEF Ahead
  <2>6. QED
    BY <2>5
<1>5. CASE Commit(s)
  <2>1. /\ boot[s].pc = "committing" /\ applied' = applied \cup {boot[s].tx}
        /\ boot'[s] = At("migrating", boot[s].known \cup {boot[s].tx})
    BY <1>5, StepOfServer DEF Commit
  <2>2. /\ boot'[s].pc = "migrating" /\ boot'[s].tx = None
        /\ boot'[s].known = boot[s].known \cup {boot[s].tx}
    BY <2>1, AtFields
  <2>3. /\ boot[s].tx \in Nat /\ Pending(s)' = Pending(s) \ {boot[s].tx}
        /\ \A u \in Pending(s) : boot[s].tx <= u
    BY <1>2, <2>1, <2>2, BootTypes DEF Pending, TakesTheLeast, Takes
  <2>4. \A q \in Server \ {r}, v \in Pending(r) : boot'[q].tx < v
    BY <1>1, <1>2, <2>2 DEF Ahead, None
  <2>5. Pending(r)' \subseteq Pending(r) /\ boot'[r].pc \in {"migrating", "committing", "serving"}
    BY <1>1, <2>2, <2>3 DEF Ahead
  <2>6. \A v \in Pending(r)' : boot[s].tx < v
    BY <1>2, <2>3, <2>5 DEF Ahead
  <2>7. Ahead(r)'
    BY <2>1, <2>4, <2>5, <2>6 DEF Ahead
  <2>8. QED
    BY <2>7
<1>6. CASE Migrate(s)
  <2>1. PICK v \in Pending(s) :
            /\ Takes(s, v) /\ v \notin applied /\ \A q \in Server : boot[q].tx # v
            /\ boot'[s] = [pc |-> "committing", known |-> boot[s].known, tx |-> v]
    BY <1>6, StepOfServer
  <2>2. /\ boot'[s].pc = "committing" /\ boot'[s].tx = v /\ Pending(s)' = Pending(s)
        /\ applied' = applied /\ v \in Nat /\ \A u \in Pending(s) : v <= u
    BY <1>2, <1>6, <2>1 DEF Pending, Migrate, Takes
  <2>3. boot'[r].pc \in {"migrating", "committing", "serving"} /\ Pending(r)' = Pending(r)
    BY <1>1, <2>2 DEF Ahead
  <2>4. CASE r = s \/ \A w \in Pending(r) : v < w
    <3>1. \A q \in Server \ {r}, w \in Pending(r) : boot'[q].tx < w
      BY <1>1, <2>2, <2>4 DEF Ahead
    <3>2. Ahead(r)'
      BY <2>2, <2>3, <3>1 DEF Ahead
    <3>3. QED
      BY <3>2
  <2>5. CASE r # s /\ \E w \in Pending(r) : ~(v < w)
    <3>1. PICK w \in Pending(r) : w <= v
      BY <1>2, <2>2, <2>5
    <3>2. boot[r].tx < v
      <4>1. boot[r].pc = "committing" => boot[r].tx \in Nat /\ boot[r].tx <= w
        BY <3>1, <1>2, BootTypes DEF TakesTheLeast, Takes
      <4>2. boot[r].pc # "committing" => boot[r].tx = None
        BY BootTypes
      <4>3. QED
        BY <1>2, <2>1, <2>2, <3>1, <4>1, <4>2 DEF None
    <3>3. (\A u \in applied : u < w) /\ \A q \in Server \ {r} : boot[q].tx < w
      BY DEF Ahead
    <3>4. \A q \in Server : boot[q].tx < v
      BY <1>2, <2>2, <3>1, <3>2, <3>3 DEF None
    <3>5. \A q \in Server \ {s}, u \in Pending(s) : boot'[q].tx < u
      BY <1>1, <1>2, <2>2, <3>4 DEF None
    <3>6. \A x \in applied, u \in Pending(s) : x < u
      BY <1>2, <2>2, <3>1, <3>3
    <3>7. Ahead(s)'
      BY <2>2, <3>5, <3>6 DEF Ahead
    <3>8. QED
      BY <3>7
  <2>6. QED
    BY <2>4, <2>5
<1>7. QED
  BY <1>3, <1>4, <1>5, <1>6 DEF BootStep

\* And there is one as soon as the first has read the empty table.
LEMMA BootKeepsLeader ==
    ASSUME BootTypeOK, TakesTheLeast, SomebodyIsAhead, BootNext
    PROVE  SomebodyIsAhead'
<1>1. CASE UNCHANGED bootVars
  BY <1>1 DEF SomebodyIsAhead, Unstarted, NothingLoaded, Ahead, Pending, bootVars
<1>2. ASSUME NEW s \in Server, Die(s) PROVE SomebodyIsAhead'
  BY <1>2 DEF Die, SomebodyIsAhead
<1>3. ASSUME NEW s \in Server, Start(s) \/ BootStep(s) PROVE SomebodyIsAhead'
  <2> SUFFICES ASSUME ~disturbed' PROVE SomebodyIsAhead'
    BY DEF SomebodyIsAhead
  <2>1. /\ ~disturbed /\ starts \in Nat /\ (starts' = starts \/ starts' = starts + 1)
        /\ (Start(s) => starts' = starts + 1)
    BY <1>3, BootTypes DEF Start, BootStep, LoadApplied, Migrate, Refuse, Commit, Serve
  <2>2. \A q \in Server \ {s} : boot'[q] = boot[q] /\ Pending(q)' = Pending(q)
    BY <1>3, OneServerMoves
  <2>3. CASE starts > 0 /\ \E r \in Server : Ahead(r)
    BY <1>3, <2>1, <2>3, AheadStays DEF SomebodyIsAhead
  <2>4. CASE starts = 0 /\ applied = {} /\ Unstarted
    <3>1. boot[s].pc = "down"
      BY <2>4 DEF Unstarted
    <3>2. Start(s)
      BY <1>3, <3>1 DEF BootStep, LoadApplied, Migrate, Refuse, Commit, Serve
    <3>3. boot'[s].pc = "loading" /\ boot'[s].tx = None /\ applied' = {}
      <4>1. boot'[s] = At("loading", {})
        BY <3>2, StepOfServer
      <4>2. QED
        BY <2>4, <3>2, <4>1, AtFields DEF Start
    <3>4. \A q \in Server : boot[q].tx = None
      BY <2>4, BootTypes DEF Unstarted
    <3>5. NothingLoaded'
      BY <2>2, <3>3, <3>4 DEF NothingLoaded
    <3>6. QED
      BY <2>1, <3>2, <3>5 DEF SomebodyIsAhead
  <2>5. CASE starts > 0 /\ NothingLoaded
    <3>1. /\ applied = {} /\ \A q \in Server : boot[q].tx = None
          /\ \A q \in Server : Pending(q) \subseteq Nat
      BY <2>5, BootTypes DEF NothingLoaded
    <3>2. PICK r \in Server : boot[r].pc = "loading"
      BY <2>5 DEF NothingLoaded
    <3>3. CASE boot[s].pc = "migrating"
      <4>1. Ahead(s)
        BY <3>1, <3>3 DEF Ahead, None
      <4>2. QED
        BY <1>3, <2>1, <2>5, <4>1, AheadStays DEF SomebodyIsAhead
    <3>4. CASE LoadApplied(s)
      <4>1. boot'[s] = At("migrating", {})
        BY <3>1, <3>4, StepOfServer
      <4>2. boot'[s].pc = "migrating" /\ applied' = {}
        BY <3>1, <3>4, <4>1, AtFields DEF LoadApplied
      <4>3. Pending(s)' \subseteq Nat
        BY <4>1, AtFields, MigrationsConstants DEF Pending
      <4>4. Ahead(s)'
        BY <2>2, <3>1, <4>2, <4>3 DEF Ahead, None
      <4>5. QED
        BY <2>1, <2>5, <4>4 DEF SomebodyIsAhead
    <3>5. CASE Start(s)
      <4>1. boot'[s] = At("loading", {})
        BY <3>5, StepOfServer
      <4>2. boot'[s].pc = "loading" /\ boot'[s].tx = None /\ applied' = {}
        BY <3>1, <3>5, <4>1, AtFields DEF Start
      <4>3. NothingLoaded'
        BY <2>2, <3>1, <4>2 DEF NothingLoaded
      <4>4. QED
        BY <2>1, <2>5, <4>3 DEF SomebodyIsAhead
    <3>6. ~Commit(s)
      <4>1. boot[s].pc = "committing" => boot[s].tx \in Nat
        BY BootTypes
      <4>2. QED
        BY <3>1, <4>1 DEF Commit, None
    <3>7. QED
      BY <1>3, <3>3, <3>4, <3>5, <3>6 DEF BootStep, Migrate, Refuse, Serve
  <2>6. QED
    BY <2>1, <2>3, <2>4, <2>5 DEF SomebodyIsAhead
<1>4. QED
  BY <1>1, <1>2, <1>3 DEF BootNext

LEMMA BootKeeps == BootInv /\ BootNext => BootInv'
  BY BootKeepsTypes, BootKeepsOrder, BootKeepsLeader DEF BootInv

LEMMA BootInitEstablishes == BootInit => BootInv
  <1> SUFFICES ASSUME BootInit PROVE BootInv
    OBVIOUS
  <1>1. boot = [s \in Server |-> Down] /\ applied = {} /\ starts = 0 /\ disturbed = FALSE
    BY DEF BootInit
  <1>2. \A s \in Server : boot[s].pc = "down" /\ boot[s].tx = None /\ boot[s].known = {}
    BY <1>1, AtFields DEF Down
  <1>3. BootTypeOK
    <2>1. Down \in [pc : BootStates, known : SUBSET applied, tx : Nat \cup {None}]
      BY DEF Down, At, BootStates
    <2>2. boot \in [Server -> [pc : BootStates, known : SUBSET applied, tx : Nat \cup {None}]]
      BY <1>1, <2>1
    <2>3. \A s \in Server : boot[s].tx \in IF boot[s].pc = "committing" THEN Pending(s) ELSE {None}
      BY <1>2
    <2>4. applied \subseteq UNION {Files[s] : s \in Server} /\ starts \in 0..MaxStarts
      BY <1>1, MigrationsConstants
    <2>5. QED
      BY <1>1, <2>2, <2>3, <2>4 DEF BootTypeOK
  <1>4. QED
    BY <1>1, <1>2, <1>3 DEF BootInv, MigratedInOrder, TakesTheLeast, SomebodyIsAhead, Unstarted

LEMMA LeaderGetsThrough == BootInv => SomebodyGetsThrough
  BY DEF BootInv, SomebodyIsAhead, NothingLoaded, Ahead, SomebodyGetsThrough

----------------------------------------------------------------------------
(* Connections: what a step makes of the one that takes it.                 *)

PCs      == {"closed"} \cup Login \cup Session
ConnType == [pc : PCs, server : Server \cup {Nobody}, handle : Handle \cup {Nobody},
             id : Identity \cup {Nobody}, completed : BOOLEAN]

ConnOK(x) ==
    /\ x \in ConnType
    /\ IF x.pc = "closed"
       THEN x = Closed
       ELSE /\ x.server \in Server /\ x.handle \in Handle
            /\ x.id = Nobody <=> x.pc \in {"lookup", "create", "again"}
            /\ x.completed => x.pc \in {"register"} \cup Session

ConnsOK == shell \in [Conn -> ConnType] /\ \A c \in Conn : ConnOK(shell[c])

TypeParts ==
    /\ BootTypeOK /\ DBTypeOK /\ ConnsOK
    /\ hungUp \subseteq {c \in Conn : shell[c].pc # "closed"}
    /\ logins \in 0..MaxLogins
    /\ registered \in [Server -> SUBSET Identity]
    /\ queue \in [Server -> SUBSET Identity]
    /\ fought \in [Identity -> Nat]

LEMMA TypeUnfolded == TypeOK <=> TypeParts
<1>1. ASSUME shell \in [Conn -> ConnType], NEW c \in Conn
      PROVE  ConnOK(shell[c]) <=>
                IF shell[c].pc = "closed"
                THEN shell[c] = Closed
                ELSE /\ shell[c].server \in Server /\ shell[c].handle \in Handle
                     /\ Player(c) = Nobody <=> shell[c].pc \in {"lookup", "create", "again"}
                     /\ shell[c].completed => shell[c].pc \in {"register"} \cup Session
  <2>1. shell[c] \in ConnType
    BY <1>1
  <2>2. QED
    BY <2>1 DEF ConnOK, Player
<1>2. ConnType = [pc : {"closed"} \cup Login \cup Session, server : Server \cup {Nobody},
                  handle : Handle \cup {Nobody}, id : Identity \cup {Nobody},
                  completed : BOOLEAN]
  BY DEF ConnType, PCs
<1>3. QED
  BY <1>1, <1>2 DEF TypeOK, TypeParts, ConnsOK

LEMMA TypeUnfoldedNext == TypeOK' <=> TypeParts'
  BY TypeUnfolded, PTL

LEMMA ClosedIsOK == ConnOK(Closed)
  BY DEF ConnOK, Closed, ConnType, PCs, Login, Session, Tutorial

\* Going from one call to the next changes nothing else.
LEMMA GoesOn ==
    ASSUME ConnsOK, NEW c \in Conn, NEW from, NEW to \in PCs, Goes(c, from, to)
    PROVE  /\ shell' = [shell EXCEPT ![c] = shell'[c]]
           /\ shell[c].pc = from /\ shell'[c].pc = to /\ shell'[c] \in ConnType
           /\ shell'[c].server = shell[c].server /\ shell'[c].handle = shell[c].handle
           /\ shell'[c].id = shell[c].id /\ shell'[c].completed = shell[c].completed
<1>1. shell[c] \in ConnType /\ shell \in [Conn -> ConnType]
  BY DEF ConnsOK
<1>2. shell' = [shell EXCEPT ![c] = [shell[c] EXCEPT !.pc = to]] /\ shell[c].pc = from
  BY DEF Goes
<1>3. [shell[c] EXCEPT !.pc = to] \in ConnType
  BY <1>1 DEF ConnType
<1>4. QED
  BY <1>1, <1>2, <1>3 DEF ConnType

\* The steps that only go on.
GoesOnly(c) ==
    \/ LookUp(c) /\ players[shell[c].handle] = Nobody
    \/ IsUniqueViolation(c) \/ EnsureProfile(c) \/ Register(c) \/ FollowPrompts(c)
    \/ Fight(c) \/ RecordRun(c) \/ TutorialRetry(c) \/ Quit(c) \/ EndOfInput(c)

Ways ==
    {<<"lookup", "create">>, <<"create", "again">>, <<"ensure", "read">>, <<"register", "prompt">>,
     <<"register", "guided">>, <<"guided", "fight">>, <<"fight", "record">>, <<"record", "mark">>,
     <<"prompt", "guided">>, <<"prompt", "leave">>, <<"guided", "leave">>}

LEMMA WaysOn ==
    ASSUME ConnsOK, NEW c \in Conn, GoesOnly(c)
    PROVE  \E w \in Ways : Goes(c, w[1], w[2])
<1>1. CASE LookUp(c) /\ players[shell[c].handle] = Nobody
  BY <1>1 DEF LookUp, Ways
<1>2. CASE IsUniqueViolation(c) \/ EnsureProfile(c)
  BY <1>2 DEF IsUniqueViolation, EnsureProfile, Ways
<1>3. CASE Register(c)
  BY <1>3 DEF Register, Ways
<1>4. CASE FollowPrompts(c) \/ Fight(c) \/ RecordRun(c)
  BY <1>4 DEF FollowPrompts, Fight, RecordRun, Ways
<1>5. CASE TutorialRetry(c) \/ Quit(c) \/ EndOfInput(c)
  BY <1>5 DEF TutorialRetry, Quit, EndOfInput, Ways
<1>6. QED
  BY <1>1, <1>2, <1>3, <1>4, <1>5 DEF GoesOnly

LEMMA WaysAreOK ==
    ASSUME ConnsOK, NEW c \in Conn, GoesOnly(c)
    PROVE  /\ shell' = [shell EXCEPT ![c] = shell'[c]]
           /\ ConnOK(shell'[c])
           /\ shell'[c].id = shell[c].id /\ shell'[c].handle = shell[c].handle
           /\ shell'[c].completed = shell[c].completed /\ shell'[c].server = shell[c].server
           /\ <<shell[c].pc, shell'[c].pc>> \in Ways
<1>1. PICK w \in Ways : Goes(c, w[1], w[2])
  BY WaysOn
<1>2. w[2] \in PCs
  BY DEF Ways, PCs, Login, Session, Tutorial
<1>3. /\ shell' = [shell EXCEPT ![c] = shell'[c]]
      /\ shell[c].pc = w[1] /\ shell'[c].pc = w[2] /\ shell'[c] \in ConnType
      /\ shell'[c].server = shell[c].server /\ shell'[c].handle = shell[c].handle
      /\ shell'[c].id = shell[c].id /\ shell'[c].completed = shell[c].completed
  BY <1>1, <1>2, GoesOn
<1>4. ConnOK(shell[c])
  BY DEF ConnsOK
<1>5. <<w[1], w[2]>> \in Ways
  BY DEF Ways
<1>6. /\ w[1] # "closed" /\ w[2] # "closed"
      /\ w[1] \in {"lookup", "create", "again"} <=> w[2] \in {"lookup", "create", "again"}
      /\ w[1] \in {"register"} \cup Session => w[2] \in {"register"} \cup Session
  BY DEF Ways, Session, Tutorial
<1>7. ConnOK(shell'[c])
  BY <1>3, <1>4, <1>6 DEF ConnOK
<1>8. QED
  BY <1>3, <1>5, <1>7

\* The steps after which nothing of the connection is left.
Ends(c) == LoginFails(c) \/ Leave(c) \/ RefuseSession(c)

\* Where a connection has its player from.
IdFrom(c) ==
    shell'[c].id # Nobody =>
        \/ shell'[c].id = shell[c].id /\ shell'[c].handle = shell[c].handle
        \/ shell'[c].id = players[shell'[c].handle] /\ UNCHANGED players
        \/ InsertPlayer(shell'[c].handle, shell'[c].id)

\* Where it has its copy of the gate from.
GateFrom(c) ==
    /\ shell'[c].completed =>
          /\ shell'[c].id = shell[c].id
          /\ \/ shell[c].completed
             \/ shell[c].id \in Identity /\ profiles[shell[c].id].completed
             \/ shell[c].pc = "mark"
    /\ shell'[c].pc \in {"record", "mark"} =>
          /\ shell'[c].id = shell[c].id
          /\ <<shell[c].pc, shell'[c].pc>> \in {<<"fight", "record">>, <<"record", "mark">>}

LEMMA Moves ==
    ASSUME ConnsOK, DBTypeOK, NEW c \in Conn, ShellStep(c) \/ Command(c)
    PROVE  /\ shell' = [shell EXCEPT ![c] = shell'[c]]
           /\ ConnOK(shell'[c]) /\ IdFrom(c) /\ (GateFrom(c) \/ UNCHANGED shell)
<1>1. /\ shell \in [Conn -> ConnType] /\ ConnOK(shell[c]) /\ shell[c] \in ConnType
  BY DEF ConnsOK
<1>2. CASE GoesOnly(c)
  <2>1. /\ shell' = [shell EXCEPT ![c] = shell'[c]] /\ ConnOK(shell'[c])
        /\ shell'[c].id = shell[c].id /\ shell'[c].handle = shell[c].handle
        /\ shell'[c].completed = shell[c].completed
        /\ <<shell[c].pc, shell'[c].pc>> \in Ways
    BY <1>2, WaysAreOK
  <2>2. GateFrom(c)
    BY <2>1 DEF GateFrom, Ways
  <2>3. QED
    BY <2>1, <2>2 DEF IdFrom
<1>3. CASE Ends(c)
  <2>1. shell' = [shell EXCEPT ![c] = Closed]
    BY <1>3 DEF Ends, LoginFails, Leave, RefuseSession, Closes
  <2>2. shell'[c] = Closed
    BY <1>1, <2>1
  <2>3. /\ shell'[c].id = Nobody /\ shell'[c].completed = FALSE
        /\ shell'[c].pc \notin {"record", "mark"}
    BY <2>2 DEF Closed
  <2>4. shell' = [shell EXCEPT ![c] = shell'[c]] /\ ConnOK(shell'[c])
    BY <2>1, <2>2, ClosedIsOK
  <2>5. QED
    BY <2>3, <2>4 DEF IdFrom, GateFrom
<1>4. CASE Play(c) \/ LeaveQueue(c) \/ HangUp(c)
  BY <1>1, <1>4 DEF Play, LeaveQueue, HangUp, IdFrom
<1>5. CASE \E s \in Server, h \in Handle : Connect(c, s, h)
  <2>1. PICK s \in Server, h \in Handle : Connect(c, s, h)
    BY <1>5
  <2> DEFINE x == [pc |-> "lookup", server |-> s, handle |-> h, id |-> Nobody, completed |-> FALSE]
  <2>2. shell' = [shell EXCEPT ![c] = x]
    BY <2>1 DEF Connect
  <2>3. shell'[c] = x
    BY <1>1, <2>2
  <2>4. ConnOK(x)
    BY DEF ConnOK, ConnType, PCs, Login
  <2>5. x.id = Nobody /\ x.completed = FALSE /\ x.pc \notin {"record", "mark"}
    OBVIOUS
  <2> HIDE DEF x
  <2>6. QED
    BY <2>2, <2>3, <2>4, <2>5 DEF IdFrom, GateFrom
<1>6. CASE LookUp(c) /\ players[shell[c].handle] # Nobody
  <2> DEFINE found == players[shell[c].handle]
             x == [shell[c] EXCEPT !.pc = "ensure", !.id = found]
  <2>1. shell[c].pc \in {"lookup", "again"} /\ shell[c].handle \in Handle /\ ~shell[c].completed
    BY <1>1, <1>6 DEF LookUp, ConnOK, Session, Tutorial
  <2>2. shell' = [shell EXCEPT ![c] = x] /\ UNCHANGED players
    BY <1>1, <1>6 DEF LookUp, dbVars
  <2>3. shell'[c] = x /\ found \in Identity
    BY <1>1, <1>6, <2>1, <2>2 DEF DBTypeOK
  <2>4. /\ x.pc = "ensure" /\ x.id = found /\ x.server = shell[c].server
        /\ x.handle = shell[c].handle /\ x.completed = shell[c].completed
    BY <1>1 DEF ConnType
  <2>5. x \in ConnType
    BY <1>1, <2>3 DEF ConnType, PCs, Login
  <2>6. ConnOK(x)
    BY <1>1, <1>6, <2>1, <2>4, <2>5 DEF ConnOK
  <2> HIDE DEF x
  <2>7. QED
    BY <2>1, <2>2, <2>3, <2>4, <2>6 DEF IdFrom, GateFrom
<1>7. CASE CreatePlayer(c)
  <2>1. PICK p \in Identity :
            /\ InsertPlayer(shell[c].handle, p)
            /\ shell' = [shell EXCEPT ![c].pc = "ensure", ![c].id = p]
    BY <1>7 DEF CreatePlayer
  <2> DEFINE x == [shell[c] EXCEPT !.pc = "ensure", !.id = p]
  <2>2. shell[c].pc = "create" /\ ~shell[c].completed /\ p # Nobody
    BY <1>1, <1>7, AccountsConstants DEF CreatePlayer, ConnOK, Session, Tutorial
  <2>3. shell' = [shell EXCEPT ![c] = x] /\ shell'[c] = x
    BY <1>1, <2>1
  <2>4. /\ x.pc = "ensure" /\ x.id = p /\ x.server = shell[c].server
        /\ x.handle = shell[c].handle /\ x.completed = shell[c].completed
    BY <1>1 DEF ConnType
  <2>5. x \in ConnType
    BY <1>1 DEF ConnType, PCs, Login
  <2>6. ConnOK(x)
    BY <1>1, <2>2, <2>4, <2>5 DEF ConnOK
  <2> HIDE DEF x
  <2>7. QED
    BY <2>1, <2>2, <2>3, <2>4, <2>6 DEF IdFrom, GateFrom
<1>8. CASE ReadProfile(c)
  <2> DEFINE known == profiles[Player(c)].completed
             x == [shell[c] EXCEPT !.pc = "register", !.completed = known]
  <2>1. shell[c].pc = "read" /\ shell[c].id \in Identity
    BY <1>1, <1>8 DEF ReadProfile, ConnOK, ConnType
  <2>2. known \in BOOLEAN
    BY <2>1 DEF DBTypeOK, Player
  <2>3. shell' = [shell EXCEPT ![c] = x] /\ shell'[c] = x
    BY <1>1, <1>8 DEF ReadProfile
  <2>4. /\ x.pc = "register" /\ x.completed = known /\ x.server = shell[c].server
        /\ x.handle = shell[c].handle /\ x.id = shell[c].id
    BY <1>1 DEF ConnType
  <2>5. x \in ConnType
    BY <1>1, <2>2 DEF ConnType, PCs, Login
  <2>6. ConnOK(x)
    BY <1>1, <2>1, <2>4, <2>5 DEF ConnOK
  <2> HIDE DEF x
  <2>7. QED
    BY <2>1, <2>3, <2>4, <2>6 DEF IdFrom, GateFrom, Player
<1>9. CASE MarkCompleted(c)
  <2> DEFINE x == [shell[c] EXCEPT !.pc = "prompt", !.completed = TRUE]
  <2>1. shell[c].pc = "mark"
    BY <1>9 DEF MarkCompleted
  <2>2. shell' = [shell EXCEPT ![c] = x] /\ shell'[c] = x
    BY <1>1, <1>9 DEF MarkCompleted
  <2>3. /\ x.pc = "prompt" /\ x.completed = TRUE /\ x.server = shell[c].server
        /\ x.handle = shell[c].handle /\ x.id = shell[c].id
    BY <1>1 DEF ConnType
  <2>4. x \in ConnType
    BY <1>1 DEF ConnType, PCs, Login, Session
  <2>5. ConnOK(x)
    BY <1>1, <2>1, <2>3, <2>4 DEF ConnOK, Session
  <2> HIDE DEF x
  <2>6. QED
    BY <2>1, <2>2, <2>3, <2>5 DEF IdFrom, GateFrom
<1>10. QED
  BY <1>2, <1>3, <1>4, <1>5, <1>6, <1>7, <1>8, <1>9
     DEF ShellStep, Command, GoesOnly, Ends

----------------------------------------------------------------------------
(* What a step makes of the tables, of the queues and of the rest.          *)

\* The statement a step executes, if it executes one.
LEMMA StatementOf ==
    ASSUME NEW c \in Conn, ShellStep(c) \/ Command(c)
    PROVE  \/ UNCHANGED dbVars
           \/ \E p \in Identity : InsertPlayer(shell[c].handle, p) /\ shell[c].pc = "create"
           \/ InsertProfile(shell[c].id) /\ shell[c].pc = "ensure"
           \/ InsertRun(shell[c].id) /\ RecordRun(c)
           \/ CompleteProfile(shell[c].id) /\ MarkCompleted(c)
<1>1. CASE LookUp(c) \/ IsUniqueViolation(c) \/ ReadProfile(c) \/ Register(c) \/ RefuseSession(c)
  BY <1>1 DEF LookUp, IsUniqueViolation, ReadProfile, Register, RefuseSession
<1>2. CASE CreatePlayer(c)
  BY <1>2 DEF CreatePlayer
<1>3. CASE EnsureProfile(c)
  BY <1>3 DEF EnsureProfile, Goes, Player
<1>4. CASE LoginFails(c)
  BY <1>4 DEF LoginFails, Player
<1>5. CASE Fight(c) \/ EndOfInput(c) \/ Leave(c)
  BY <1>5 DEF Fight, EndOfInput, Leave
<1>6. CASE RecordRun(c)
  BY <1>6 DEF RecordRun, Player
<1>7. CASE MarkCompleted(c)
  BY <1>7 DEF MarkCompleted, Player
<1>8. CASE Command(c)
  BY <1>8 DEF Command, Connect, FollowPrompts, Play, LeaveQueue, TutorialRetry, Quit, HangUp
<1>9. QED
  BY <1>1, <1>2, <1>3, <1>4, <1>5, <1>6, <1>7, <1>8 DEF ShellStep

Row == [exists : BOOLEAN, completed : BOOLEAN, at : Nat \cup {Never}, runs : Nat]

\* What each statement does to the row of its player, and that it touches no other.
LEMMA Statements ==
    ASSUME DBTypeOK, NEW p \in Identity,
           InsertProfile(p) \/ InsertRun(p) \/ CompleteProfile(p)
    PROVE  /\ profiles' = [profiles EXCEPT ![p] = profiles'[p]] /\ profiles'[p] \in Row
           /\ players' = players
           /\ \/ /\ UNCHANGED <<runs, clock>>
                 /\ profiles'[p] = IF profiles[p].exists THEN profiles[p] ELSE NewProfile
              \/ /\ runs' = [runs EXCEPT ![p] = runs[p] + 1] /\ UNCHANGED clock
                 /\ InsertRun(p)
                 /\ profiles'[p].exists /\ profiles'[p].runs = profiles[p].runs + 1
                 /\ profiles'[p].completed = profiles[p].completed
                 /\ profiles'[p].at = profiles[p].at
              \/ /\ UNCHANGED runs /\ clock' = clock + 1
                 /\ CompleteProfile(p)
                 /\ profiles'[p].exists /\ profiles'[p].completed
                 /\ profiles'[p].at = IF profiles[p].at = Never THEN clock ELSE profiles[p].at
                 /\ profiles'[p].runs = profiles[p].runs
<1>1. profiles \in [Identity -> Row] /\ profiles[p] \in Row /\ clock \in Nat
  BY DEF DBTypeOK, Row
<1>2. profiles[p].runs \in Nat /\ profiles[p].at \in Nat \cup {Never}
  BY <1>1 DEF Row
<1>3. NewProfile \in Row
  BY DEF NewProfile, Row
<1>4. CASE InsertProfile(p)
  BY <1>1, <1>3, <1>4 DEF InsertProfile
<1>5. CASE InsertRun(p)
  <2>1. PICK n \in Nat : n = profiles[p].runs + 1
    BY <1>2
  <2>2. PICK x : x = [profiles[p] EXCEPT !.exists = TRUE, !.runs = n]
    OBVIOUS
  <2>3. /\ x \in Row /\ x.exists /\ x.runs = n
        /\ x.completed = profiles[p].completed /\ x.at = profiles[p].at
    BY <1>1, <2>2 DEF Row
  <2>4. profiles' = [profiles EXCEPT ![p] = x]
    BY <1>1, <1>5, <2>1, <2>2 DEF InsertRun
  <2>5. profiles'[p] = x
    BY <1>1, <2>4
  <2>6. QED
    BY <1>5, <2>1, <2>3, <2>4, <2>5 DEF InsertRun
<1>6. CASE CompleteProfile(p)
  <2>1. PICK t \in Nat \cup {Never} : t = IF profiles[p].at = Never THEN clock ELSE profiles[p].at
    BY <1>1, <1>2
  <2>2. PICK x : x = [profiles[p] EXCEPT !.exists = TRUE, !.completed = TRUE, !.at = t]
    OBVIOUS
  <2>3. x \in Row /\ x.exists /\ x.completed /\ x.at = t /\ x.runs = profiles[p].runs
    BY <1>1, <2>2 DEF Row
  <2>4. profiles' = [profiles EXCEPT ![p] = x]
    BY <1>1, <1>6, <2>1, <2>2 DEF CompleteProfile
  <2>5. profiles'[p] = x
    BY <1>1, <2>4
  <2>6. QED
    BY <1>6, <2>1, <2>3, <2>4, <2>5 DEF CompleteProfile
<1>7. QED
  BY <1>4, <1>5, <1>6

\* Who has a player is past the look-up.
LEMMA HasPlayer ==
    ASSUME ConnsOK, NEW c \in Conn, shell[c].pc \notin {"closed", "lookup", "create", "again"}
    PROVE  shell[c].id \in Identity /\ shell[c].server \in Server
<1>1. ConnOK(shell[c])
  BY DEF ConnsOK
<1>2. QED
  BY <1>1 DEF ConnOK, ConnType

LEMMA TablesKeepTypes ==
    ASSUME ConnsOK, DBTypeOK, NEW c \in Conn, ShellStep(c) \/ Command(c)
    PROVE  DBTypeOK'
<1>1. CASE UNCHANGED dbVars
  BY <1>1 DEF DBTypeOK, dbVars
<1>2. CASE \E p \in Identity : InsertPlayer(shell[c].handle, p)
  BY <1>2 DEF DBTypeOK, InsertPlayer
<1>3. profiles \in [Identity -> Row] /\ runs \in [Identity -> Nat] /\ clock \in Nat
  BY DEF DBTypeOK, Row
<1>4. ASSUME NEW p \in Identity, InsertProfile(p) \/ InsertRun(p) \/ CompleteProfile(p)
      PROVE  DBTypeOK'
  <2>1. profiles' = [profiles EXCEPT ![p] = profiles'[p]] /\ profiles'[p] \in Row
    BY <1>4, Statements
  <2>2. profiles' \in [Identity -> Row]
    BY <1>3, <2>1
  <2>3. runs' \in [Identity -> Nat] /\ clock' \in Nat /\ players' = players
    BY <1>3, <1>4 DEF InsertProfile, InsertRun, CompleteProfile
  <2>4. QED
    BY <2>2, <2>3 DEF DBTypeOK, Row
<1>5. CASE InsertProfile(shell[c].id) /\ shell[c].pc = "ensure"
  BY <1>4, <1>5, HasPlayer
<1>6. CASE InsertRun(shell[c].id) /\ RecordRun(c)
  BY <1>4, <1>6, HasPlayer DEF RecordRun, Goes
<1>7. CASE CompleteProfile(shell[c].id) /\ MarkCompleted(c)
  BY <1>4, <1>7, HasPlayer DEF MarkCompleted
<1>8. QED
  BY <1>1, <1>2, <1>5, <1>6, <1>7, StatementOf

LEMMA LobbiesKeepTypes ==
    ASSUME TypeOK, NEW c \in Conn, ShellStep(c) \/ Command(c)
    PROVE  /\ hungUp' \subseteq {d \in Conn : shell'[d].pc # "closed"}
           /\ logins' \in 0..MaxLogins
           /\ registered' \in [Server -> SUBSET Identity]
           /\ queue' \in [Server -> SUBSET Identity]
           /\ fought' \in [Identity -> Nat]
           /\ UNCHANGED fought \/ Fight(c)
           /\ UNCHANGED bootVars
<1>1. /\ ConnsOK /\ DBTypeOK /\ hungUp \subseteq {d \in Conn : shell[d].pc # "closed"}
      /\ registered \in [Server -> SUBSET Identity]
      /\ queue \in [Server -> SUBSET Identity]
      /\ fought \in [Identity -> Nat] /\ logins \in 0..MaxLogins
  BY TypeUnfolded DEF TypeParts
<1>2. shell' = [shell EXCEPT ![c] = shell'[c]] /\ \A d \in Conn \ {c} : shell'[d] = shell[d]
  <2>1. shell' = [shell EXCEPT ![c] = shell'[c]]
    BY <1>1, Moves
  <2>2. QED
    BY <1>1, <2>1 DEF ConnsOK
<1>3. CASE GoesOnly(c)
  <2>1. shell'[c].pc # "closed"
    BY <1>1, <1>3, WaysAreOK DEF Ways
  <2>2. hungUp' = hungUp /\ logins' = logins /\ queue' = queue /\ UNCHANGED bootVars
    BY <1>3 DEF GoesOnly, LookUp, IsUniqueViolation, EnsureProfile, Register, FollowPrompts,
                Fight, RecordRun, TutorialRetry, Quit, EndOfInput, lobbies
  <2>3. registered' \in [Server -> SUBSET Identity]
    <3>1. CASE Register(c)
      BY <1>1, <3>1, HasPlayer DEF Register, Player, On
    <3>2. CASE ~Register(c)
      BY <1>1, <1>3, <3>2
         DEF GoesOnly, LookUp, IsUniqueViolation, EnsureProfile, FollowPrompts,
             Fight, RecordRun, TutorialRetry, Quit, EndOfInput, lobbies
    <3>3. QED
      BY <3>1, <3>2
  <2>4. fought' \in [Identity -> Nat] /\ (UNCHANGED fought \/ Fight(c))
    <3>1. CASE Fight(c)
      BY <1>1, <3>1, HasPlayer DEF Fight, Player, Goes
    <3>2. CASE ~Fight(c)
      BY <1>1, <1>3, <3>2
         DEF GoesOnly, LookUp, IsUniqueViolation, EnsureProfile, Register, FollowPrompts,
             RecordRun, TutorialRetry, Quit, EndOfInput
    <3>3. QED
      BY <3>1, <3>2
  <2>5. QED
    BY <1>1, <1>2, <2>1, <2>2, <2>3, <2>4
<1>4. CASE Ends(c)
  <2>1. /\ hungUp' = hungUp \ {c} /\ logins' = logins /\ fought' = fought
        /\ UNCHANGED bootVars
    BY <1>4 DEF Ends, LoginFails, Leave, RefuseSession, Closes
  <2>2. registered' \in [Server -> SUBSET Identity] /\ queue' \in [Server -> SUBSET Identity]
    <3>1. CASE Leave(c)
      BY <1>1, <3>1 DEF Leave
    <3>2. CASE LoginFails(c) \/ RefuseSession(c)
      BY <1>1, <3>2 DEF LoginFails, RefuseSession, lobbies
    <3>3. QED
      BY <1>4, <3>1, <3>2 DEF Ends
  <2>3. QED
    BY <1>1, <1>2, <2>1, <2>2
<1>5. CASE (LookUp(c) /\ players[shell[c].handle] # Nobody) \/ CreatePlayer(c) \/ ReadProfile(c)
           \/ MarkCompleted(c)
  <2>1. /\ hungUp' = hungUp /\ logins' = logins /\ fought' = fought
        /\ registered' = registered /\ queue' = queue /\ UNCHANGED bootVars
    BY <1>5 DEF LookUp, CreatePlayer, ReadProfile, MarkCompleted, lobbies
  <2>2. \E pc \in {"ensure", "register", "prompt"} : shell'[c].pc = pc
    <3>1. shell[c] \in ConnType /\ shell \in [Conn -> ConnType]
      BY <1>1 DEF ConnsOK
    <3>2. CASE LookUp(c) /\ players[shell[c].handle] # Nobody
      BY <3>1, <3>2 DEF LookUp, ConnType
    <3>3. CASE CreatePlayer(c)
      BY <3>1, <3>3 DEF CreatePlayer, ConnType
    <3>4. CASE ReadProfile(c)
      BY <3>1, <3>4 DEF ReadProfile, ConnType
    <3>5. CASE MarkCompleted(c)
      BY <3>1, <3>5 DEF MarkCompleted, ConnType
    <3>6. QED
      BY <1>5, <3>2, <3>3, <3>4, <3>5
  <2>3. QED
    BY <1>1, <1>2, <2>1, <2>2
<1>6. CASE Play(c) \/ LeaveQueue(c)
  <2>1. /\ hungUp' = hungUp /\ logins' = logins /\ fought' = fought /\ shell' = shell
        /\ registered' = registered /\ UNCHANGED bootVars
    BY <1>6 DEF Play, LeaveQueue
  <2>2. queue' \in [Server -> SUBSET Identity]
    <3>1. CASE LeaveQueue(c)
      BY <1>1, <3>1 DEF LeaveQueue
    <3>2. CASE Play(c)
      BY <1>1, <3>2, HasPlayer DEF Play, Player, On
    <3>3. QED
      BY <1>6, <3>1, <3>2
  <2>3. QED
    BY <1>1, <2>1, <2>2
<1>7. CASE HangUp(c)
  BY <1>1, <1>7 DEF HangUp, lobbies
<1>8. CASE \E s \in Server, h \in Handle : Connect(c, s, h)
  <2>1. PICK s \in Server, h \in Handle : Connect(c, s, h)
    BY <1>8
  <2>2. /\ hungUp' = hungUp /\ logins' = logins + 1 /\ logins < MaxLogins /\ fought' = fought
        /\ registered' = registered /\ queue' = queue /\ UNCHANGED bootVars
    BY <2>1 DEF Connect, lobbies
  <2>3. shell'[c].pc = "lookup"
    BY <1>1, <2>1 DEF Connect, ConnsOK
  <2>4. logins' \in 0..MaxLogins
    BY <1>1, <2>2, ShellConstants
  <2>5. QED
    BY <1>1, <1>2, <2>2, <2>3, <2>4
<1>9. QED
  BY <1>3, <1>4, <1>5, <1>6, <1>7, <1>8 DEF ShellStep, Command, GoesOnly, Ends

----------------------------------------------------------------------------
(* The types, and with them how the servers start.                          *)

\* A death leaves nothing of the connections of the server.
LEMMA DeathCloses ==
    ASSUME TypeOK, NEW s \in Server, ServerDies(s)
    PROVE  /\ \A c \in Conn : shell'[c] = IF shell[c].server = s THEN Closed ELSE shell[c]
           /\ ConnsOK' /\ UNCHANGED <<dbVars, logins, fought>>
           /\ hungUp' \subseteq {c \in Conn : shell'[c].pc # "closed"}
           /\ \A r \in Server : registered'[r] \subseteq registered[r] /\ queue'[r] \subseteq queue[r]
           /\ registered' \in [Server -> SUBSET Identity] /\ queue' \in [Server -> SUBSET Identity]
<1>1. /\ shell \in [Conn -> ConnType] /\ \A c \in Conn : ConnOK(shell[c])
      /\ hungUp \subseteq {c \in Conn : shell[c].pc # "closed"}
      /\ registered \in [Server -> SUBSET Identity] /\ queue \in [Server -> SUBSET Identity]
  BY TypeUnfolded DEF TypeParts, ConnsOK
<1> DEFINE gone == {c \in Conn : shell[c].server = s}
<1>2. /\ shell' = [c \in Conn |-> IF c \in gone THEN Closed ELSE shell[c]]
      /\ hungUp' = hungUp \ gone
      /\ UNCHANGED <<dbVars, logins, fought>>
      /\ registered' = [registered EXCEPT ![s] = {}] /\ queue' = [queue EXCEPT ![s] = {}]
  BY DEF ServerDies, On
<1>3. \A c \in Conn : shell'[c] = IF shell[c].server = s THEN Closed ELSE shell[c]
  BY <1>2
<1>4. Closed \in ConnType /\ ConnOK(Closed)
  BY ClosedIsOK DEF ConnOK
<1>5. ConnsOK'
  <2>1. \A c \in Conn : shell'[c] \in ConnType /\ ConnOK(shell'[c])
    BY <1>1, <1>3, <1>4
  <2>2. shell' \in [Conn -> ConnType]
    BY <1>2, <2>1
  <2>3. QED
    BY <2>1, <2>2 DEF ConnsOK
<1>6. hungUp' \subseteq {c \in Conn : shell'[c].pc # "closed"}
  BY <1>1, <1>2, <1>3
<1>7. QED
  BY <1>1, <1>2, <1>3, <1>5, <1>6

\* The three kinds of step: a connection's, the start of a server, its end; Popped.
LEMMA TypesKept ==
    ASSUME BootInv, TypeOK, [Next]_vars
    PROVE  BootInv' /\ TypeOK'
<1>1. /\ BootTypeOK /\ DBTypeOK /\ ConnsOK
      /\ hungUp \subseteq {d \in Conn : shell[d].pc # "closed"}
      /\ registered \in [Server -> SUBSET Identity]
      /\ queue \in [Server -> SUBSET Identity]
      /\ fought \in [Identity -> Nat] /\ logins \in 0..MaxLogins
  BY TypeUnfolded DEF TypeParts
<1>2. BootNext => BootInv' /\ BootTypeOK'
  BY BootKeeps DEF BootInv
<1>3. ASSUME NEW c \in Conn, ShellStep(c) \/ Command(c)
      PROVE  BootInv' /\ TypeOK'
  <2>1. DBTypeOK'
    BY <1>1, <1>3, TablesKeepTypes
  <2>2. ConnsOK'
    <3>1. shell' = [shell EXCEPT ![c] = shell'[c]] /\ ConnOK(shell'[c])
      BY <1>1, <1>3, Moves
    <3>2. shell \in [Conn -> ConnType] /\ shell'[c] \in ConnType
      BY <1>1, <3>1 DEF ConnsOK, ConnOK
    <3>3. QED
      BY <1>1, <3>1, <3>2 DEF ConnsOK
  <2>3. /\ hungUp' \subseteq {d \in Conn : shell'[d].pc # "closed"}
        /\ logins' \in 0..MaxLogins
        /\ registered' \in [Server -> SUBSET Identity]
        /\ queue' \in [Server -> SUBSET Identity]
        /\ fought' \in [Identity -> Nat]
        /\ UNCHANGED bootVars
    BY <1>3, LobbiesKeepTypes
  <2>4. BootInv' /\ BootTypeOK'
    BY <1>2, <2>3 DEF BootNext
  <2>5. QED
    BY <2>1, <2>2, <2>3, <2>4, TypeUnfoldedNext DEF TypeParts
<1>4. ASSUME NEW s \in Server, (Start(s) \/ BootStep(s)) /\ UNCHANGED <<dbVars, shellVars>>
      PROVE  BootInv' /\ TypeOK'
  <2>1. BootInv' /\ BootTypeOK'
    BY <1>2, <1>4 DEF BootNext
  <2>2. UNCHANGED <<players, profiles, runs, clock, shell, hungUp, logins, registered, queue, fought>>
    BY <1>4 DEF dbVars, shellVars, lobbies
  <2>3. DBTypeOK' /\ ConnsOK'
    BY <1>1, <2>2 DEF DBTypeOK, ConnsOK
  <2>4. QED
    BY <1>1, <2>1, <2>2, <2>3, TypeUnfoldedNext DEF TypeParts
<1>5. ASSUME NEW s \in Server, ServerDies(s)
      PROVE  BootInv' /\ TypeOK'
  <2>1. BootInv' /\ BootTypeOK'
    BY <1>2, <1>5 DEF BootNext, ServerDies
  <2>2. /\ ConnsOK' /\ UNCHANGED <<dbVars, logins, fought>>
        /\ hungUp' \subseteq {c \in Conn : shell'[c].pc # "closed"}
        /\ registered' \in [Server -> SUBSET Identity] /\ queue' \in [Server -> SUBSET Identity]
    BY <1>5, DeathCloses
  <2>3. DBTypeOK' /\ logins' = logins /\ fought' = fought
    BY <1>1, <2>2 DEF DBTypeOK, dbVars
  <2>4. QED
    BY <1>1, <2>1, <2>2, <2>3, TypeUnfoldedNext DEF TypeParts
<1>6. ASSUME NEW s \in Server, NEW p \in Identity, Popped(s, p)
      PROVE  BootInv' /\ TypeOK'
  <2>1. /\ UNCHANGED <<bootVars, players, profiles, runs, clock, shell, hungUp, logins, registered, fought>>
        /\ queue' \in [Server -> SUBSET Identity]
    BY <1>1, <1>6 DEF Popped, dbVars
  <2>2. BootInv' /\ BootTypeOK'
    BY <1>2, <2>1 DEF BootNext
  <2>3. DBTypeOK' /\ ConnsOK'
    BY <1>1, <2>1 DEF DBTypeOK, ConnsOK
  <2>4. QED
    BY <1>1, <2>1, <2>2, <2>3, TypeUnfoldedNext DEF TypeParts
<1>7. CASE UNCHANGED vars
  <2>1. UNCHANGED <<bootVars, players, profiles, runs, clock, shell, hungUp, logins, registered, queue, fought>>
    BY <1>7 DEF vars, dbVars, shellVars, lobbies
  <2>2. BootInv' /\ BootTypeOK'
    BY <1>2, <2>1 DEF BootNext
  <2>3. DBTypeOK' /\ ConnsOK'
    BY <1>1, <2>1 DEF DBTypeOK, ConnsOK
  <2>4. QED
    BY <1>1, <2>1, <2>2, <2>3, TypeUnfoldedNext DEF TypeParts
<1>8. QED
  BY <1>3, <1>4, <1>5, <1>6, <1>7 DEF Next, ServerStep

LEMMA Starts ==
    ASSUME Init
    PROVE  BootInv /\ TypeOK /\ \A c \in Conn : shell[c] = Closed
<1>1. BootInv
  BY BootInitEstablishes DEF Init
<1>2. shell = [c \in Conn |-> Closed]
  BY DEF Init
<1>3. ConnsOK /\ \A c \in Conn : shell[c] = Closed
  BY <1>2, ClosedIsOK DEF ConnsOK, ConnOK
<1>4. NoProfile \in Row
  BY DEF NoProfile, Row
<1>5. DBTypeOK
  BY <1>4 DEF Init, DBInit, DBTypeOK, Row
<1>6. logins \in 0..MaxLogins
  BY ShellConstants DEF Init
<1>7. hungUp = {} /\ registered \in [Server -> SUBSET Identity]
      /\ queue \in [Server -> SUBSET Identity] /\ fought \in [Identity -> Nat]
  BY DEF Init
<1>8. QED
  BY <1>1, <1>3, <1>5, <1>6, <1>7, TypeUnfolded DEF TypeParts, BootInv

\* The variables have their types, whatever fails (ApplyMigrations, runShell, RunTutorial).
THEOREM ShellTyped == Spec => []TypeOK
<1>1. Init => BootInv /\ TypeOK
  BY Starts
<1>2. BootInv /\ TypeOK /\ [Next]_vars => (BootInv /\ TypeOK)'
  BY TypesKept
<1>3. QED
  BY <1>1, <1>2, PTL DEF Spec

\* README.md, "Startup applies pending migrations automatically in order.": for any
\* number of servers, of any releases, wherever one dies (ApplyMigrations).
THEOREM MigrationsInOrder == Spec => []MigratedInOrder
<1>1. Init => BootInv /\ TypeOK
  BY Starts
<1>2. BootInv /\ TypeOK /\ [Next]_vars => (BootInv /\ TypeOK)'
  BY TypesKept
<1>3. BootInv => MigratedInOrder
  BY DEF BootInv
<1>4. QED
  BY <1>1, <1>2, <1>3, PTL DEF Spec

\* However many servers start together and defeat each other, one of them gets through,
\* unless something fails: somebody is always ahead (ApplyMigrations).
THEOREM OneGetsThrough == Spec => []SomebodyGetsThrough
<1>1. Init => BootInv /\ TypeOK
  BY Starts
<1>2. BootInv /\ TypeOK /\ [Next]_vars => (BootInv /\ TypeOK)'
  BY TypesKept
<1>3. BootInv => SomebodyGetsThrough
  BY LeaderGetsThrough
<1>4. QED
  BY <1>1, <1>2, <1>3, PTL DEF Spec

----------------------------------------------------------------------------
(* One identity for each handle.                                            *)

\* What a step does to the players' table: nothing, or one row that was not there.
LEMMA PlayersGrow ==
    ASSUME TypeOK, [Next]_vars
    PROVE  \/ players' = players
           \/ \E h \in Handle, p \in Identity : InsertPlayer(h, p)
<1>1. ConnsOK /\ DBTypeOK
  BY TypeUnfolded DEF TypeParts
<1>2. ASSUME NEW c \in Conn, ShellStep(c) \/ Command(c)
      PROVE  players' = players \/ \E h \in Handle, p \in Identity : InsertPlayer(h, p)
  <2>1. CASE \E p \in Identity : InsertPlayer(shell[c].handle, p) /\ shell[c].pc = "create"
    <3>1. ConnOK(shell[c])
      BY <1>1 DEF ConnsOK
    <3>2. shell[c].handle \in Handle
      BY <2>1, <3>1 DEF ConnOK
    <3>3. QED
      BY <2>1, <3>2
  <2>2. CASE players' = players
    BY <2>2
  <2>3. QED
    BY <1>2, <2>1, <2>2, StatementOf DEF dbVars, InsertProfile, InsertRun, CompleteProfile
<1>3. ASSUME NEW s \in Server, ServerStep(s)
      PROVE  players' = players
  BY <1>3 DEF ServerStep, ServerDies, Popped, dbVars
<1>4. CASE UNCHANGED vars
  BY <1>4 DEF vars, dbVars
<1>5. QED
  BY <1>2, <1>3, <1>4 DEF Next

\* Who is who in the table, and that a row stays and is new to everybody.
LEMMA TableKept ==
    ASSUME TypeOK, SameIdentity, [Next]_vars
    PROVE  /\ \A h \in Handle : players[h] # Nobody => players'[h] = players[h]
           /\ \A h, i \in Handle : players'[h] = players'[i] /\ h # i => players'[h] = Nobody
<1>1. players \in [Handle -> Identity \cup {Nobody}]
  BY TypeUnfolded DEF TypeParts, DBTypeOK
<1>2. CASE players' = players
  BY <1>2 DEF SameIdentity
<1>3. ASSUME NEW g \in Handle, NEW p \in Identity, InsertPlayer(g, p)
      PROVE  /\ \A h \in Handle : players[h] # Nobody => players'[h] = players[h]
             /\ \A h, i \in Handle : players'[h] = players'[i] /\ h # i => players'[h] = Nobody
  <2>1. /\ \A h \in Handle : players[h] # p
        /\ players[g] = Nobody
        /\ players' = [players EXCEPT ![g] = p]
    BY <1>3 DEF InsertPlayer, Fresh, Drawn
  <2>2. QED
    BY <1>1, <2>1 DEF SameIdentity
<1>4. QED
  BY <1>2, <1>3, PlayersGrow

LEMMA IdentityKept ==
    ASSUME TypeOK, SameIdentity, [Next]_vars
    PROVE  SameIdentity'
<1>1. ConnsOK /\ DBTypeOK
  BY TypeUnfolded DEF TypeParts
<1>2. /\ \A h \in Handle : players[h] # Nobody => players'[h] = players[h]
      /\ \A h, i \in Handle : players'[h] = players'[i] /\ h # i => players'[h] = Nobody
  BY TableKept
<1>3. ASSUME NEW d \in Conn, shell'[d] = shell[d], shell[d].id # Nobody
      PROVE  players'[shell'[d].handle] = shell'[d].id
  <2>1. ConnOK(shell[d]) /\ players[shell[d].handle] = shell[d].id
    BY <1>1, <1>3 DEF ConnsOK, SameIdentity, Player
  <2>2. shell[d].pc # "closed"
    BY <1>3, <2>1 DEF ConnOK, Closed
  <2>3. shell[d].handle \in Handle
    BY <2>1, <2>2 DEF ConnOK
  <2>4. QED
    BY <1>2, <1>3, <2>1, <2>3
<1>4. \A d \in Conn : shell'[d].id # Nobody => players'[shell'[d].handle] = shell'[d].id
  <2>1. ASSUME NEW c \in Conn, ShellStep(c) \/ Command(c), NEW d \in Conn, shell'[d].id # Nobody
        PROVE  players'[shell'[d].handle] = shell'[d].id
    <3>1. /\ shell' = [shell EXCEPT ![c] = shell'[c]] /\ ConnOK(shell'[c]) /\ IdFrom(c)
      BY <1>1, <2>1, Moves
    <3>2. CASE d # c
      <4>1. shell'[d] = shell[d]
        BY <1>1, <3>1, <3>2 DEF ConnsOK
      <4>2. QED
        BY <1>3, <2>1, <4>1
    <3>3. CASE d = c
      <4>1. shell'[c].handle \in Handle
        BY <2>1, <3>1, <3>3 DEF ConnOK, Closed
      <4>2. CASE shell'[c].id = shell[c].id /\ shell'[c].handle = shell[c].handle
        <5>1. players[shell[c].handle] = shell[c].id
          BY <2>1, <3>3, <4>2 DEF SameIdentity, Player
        <5>2. QED
          BY <1>2, <2>1, <3>3, <4>1, <4>2, <5>1
      <4>3. CASE shell'[c].id = players[shell'[c].handle] /\ UNCHANGED players
        BY <3>3, <4>3
      <4>4. CASE InsertPlayer(shell'[c].handle, shell'[c].id)
        BY <1>1, <3>3, <4>1, <4>4 DEF InsertPlayer, DBTypeOK
      <4>5. QED
        BY <2>1, <3>1, <3>3, <4>2, <4>3, <4>4 DEF IdFrom
    <3>4. QED
      BY <3>2, <3>3
  <2>2. ASSUME NEW s \in Server, ServerStep(s), NEW d \in Conn, shell'[d].id # Nobody
        PROVE  players'[shell'[d].handle] = shell'[d].id
    <3>1. shell'[d] = shell[d] \/ shell'[d] = Closed
      <4>1. CASE ServerDies(s)
        BY <4>1, DeathCloses
      <4>2. CASE shell' = shell
        BY <4>2
      <4>3. QED
        BY <2>2, <4>1, <4>2 DEF ServerStep, Popped, shellVars
    <3>2. QED
      BY <1>3, <2>2, <3>1 DEF Closed
  <2>3. ASSUME UNCHANGED vars, NEW d \in Conn, shell'[d].id # Nobody
        PROVE  players'[shell'[d].handle] = shell'[d].id
    BY <1>3, <2>3 DEF vars, shellVars
  <2>4. QED
    BY <2>1, <2>2, <2>3 DEF Next
<1>5. QED
  BY <1>2, <1>4 DEF SameIdentity, Player

LEMMA IdentityStarts == Init => SameIdentity
  BY Starts DEF Closed, SameIdentity, Player, Init, DBInit

\* A handle is one player and a player has one handle, for any number of connections that
\* log in at the same time, any servers, any lost answers (EnsurePlayerSession).
THEOREM OneIdentity == Spec => []SameIdentity
<1>1. Init => BootInv /\ TypeOK /\ SameIdentity
  BY Starts, IdentityStarts
<1>2. BootInv /\ TypeOK /\ SameIdentity /\ [Next]_vars => (BootInv /\ TypeOK /\ SameIdentity)'
  BY TypesKept, IdentityKept
<1>3. QED
  BY <1>1, <1>2, PTL DEF Spec

----------------------------------------------------------------------------
(* The gate.                                                                *)

\* The only steps that write to a stored profile, and what they write.
RowStep(p) ==
    \/ profiles'[p] = profiles[p] /\ runs'[p] = runs[p]
    \/ ~profiles[p].exists /\ profiles'[p] = NewProfile /\ runs'[p] = runs[p]
    \/ /\ \E c \in Conn : RecordRun(c) /\ shell[c].id = p
       /\ profiles'[p].exists /\ profiles'[p].completed = profiles[p].completed
       /\ profiles'[p].at = profiles[p].at
       /\ profiles'[p].runs = profiles[p].runs + 1 /\ runs'[p] = runs[p] + 1
    \/ /\ \E c \in Conn : MarkCompleted(c) /\ shell[c].id = p
       /\ profiles'[p].exists /\ profiles'[p].completed
       /\ profiles'[p].at = IF profiles[p].at = Never THEN clock ELSE profiles[p].at
       /\ profiles'[p].runs = profiles[p].runs /\ runs'[p] = runs[p]

LEMMA RowSteps ==
    ASSUME TypeOK, [Next]_vars, NEW p \in Identity
    PROVE  RowStep(p)
<1>1. /\ ConnsOK /\ DBTypeOK /\ profiles \in [Identity -> Row] /\ runs \in [Identity -> Nat]
  BY TypeUnfolded DEF TypeParts, DBTypeOK, Row
<1>2. CASE UNCHANGED <<profiles, runs>>
  BY <1>2 DEF RowStep
<1>3. ASSUME NEW c \in Conn, ShellStep(c) \/ Command(c)
      PROVE  RowStep(p)
  <2> DEFINE q == shell[c].id
  <2>1. CASE UNCHANGED dbVars \/ \E r \in Identity : InsertPlayer(shell[c].handle, r)
    BY <1>2, <2>1 DEF dbVars, InsertPlayer
  <2>2. CASE InsertProfile(q) /\ shell[c].pc = "ensure"
    <3>1. q \in Identity
      BY <1>1, <2>2, HasPlayer
    <3>2. /\ profiles' = [profiles EXCEPT ![q] = profiles'[q]] /\ UNCHANGED runs
          /\ profiles'[q] = IF profiles[q].exists THEN profiles[q] ELSE NewProfile
      BY <1>1, <2>2, <3>1 DEF InsertProfile
    <3>3. QED
      BY <1>1, <3>1, <3>2 DEF RowStep
  <2>3. CASE InsertRun(q) /\ RecordRun(c)
    <3>1. q \in Identity
      BY <1>1, <2>3, HasPlayer DEF RecordRun, Goes
    <3>2. /\ profiles' = [profiles EXCEPT ![q] = profiles'[q]]
          /\ runs' = [runs EXCEPT ![q] = runs[q] + 1]
          /\ profiles'[q].exists /\ profiles'[q].runs = profiles[q].runs + 1
          /\ profiles'[q].completed = profiles[q].completed
          /\ profiles'[q].at = profiles[q].at
      <4>1. runs' = [runs EXCEPT ![q] = runs[q] + 1] /\ UNCHANGED clock
        BY <2>3 DEF InsertRun
      <4>2. runs'[q] # runs[q] /\ clock' # clock + 1
        BY <1>1, <3>1, <4>1 DEF DBTypeOK
      <4>3. QED
        BY <1>1, <2>3, <3>1, <4>1, <4>2, Statements
    <3>3. QED
      BY <1>1, <2>3, <3>1, <3>2 DEF RowStep
  <2>4. CASE CompleteProfile(q) /\ MarkCompleted(c)
    <3>1. q \in Identity
      BY <1>1, <2>4, HasPlayer DEF MarkCompleted
    <3>2. /\ profiles' = [profiles EXCEPT ![q] = profiles'[q]] /\ UNCHANGED runs
          /\ profiles'[q].exists /\ profiles'[q].completed
          /\ profiles'[q].at = IF profiles[q].at = Never THEN clock ELSE profiles[q].at
          /\ profiles'[q].runs = profiles[q].runs
      <4>1. UNCHANGED runs /\ clock' = clock + 1
        BY <2>4 DEF CompleteProfile
      <4>2. clock' # clock /\ runs' # [runs EXCEPT ![q] = runs[q] + 1]
        BY <1>1, <3>1, <4>1 DEF DBTypeOK
      <4>3. QED
        BY <1>1, <2>4, <3>1, <4>1, <4>2, Statements
    <3>3. QED
      BY <1>1, <2>4, <3>1, <3>2 DEF RowStep
  <2>5. QED
    BY <1>3, <2>1, <2>2, <2>3, <2>4, StatementOf
<1>4. ASSUME NEW s \in Server, ServerStep(s)
      PROVE  RowStep(p)
  BY <1>2, <1>4 DEF ServerStep, ServerDies, Popped, dbVars
<1>5. CASE UNCHANGED vars
  BY <1>2, <1>5 DEF vars, dbVars
<1>6. QED
  BY <1>3, <1>4, <1>5 DEF Next

LEMMA FoughtGrows ==
    ASSUME BootInv, TypeOK, [Next]_vars
    PROVE  /\ fought' \in [Identity -> Nat]
           /\ \A p \in Identity : fought'[p] >= fought[p]
           /\ UNCHANGED fought \/ \E c \in Conn : Fight(c)
<1>1. fought \in [Identity -> Nat] /\ ConnsOK
  BY TypeUnfolded DEF TypeParts
<1>2. CASE UNCHANGED fought
  BY <1>1, <1>2
<1>3. ASSUME NEW c \in Conn, Fight(c)
      PROVE  \A p \in Identity : fought'[p] >= fought[p] /\ fought'[p] \in Nat
  <2>1. shell[c].id \in Identity
    BY <1>1, <1>3, HasPlayer DEF Fight, Goes
  <2>2. fought' = [fought EXCEPT ![shell[c].id] = fought[shell[c].id] + 1]
    BY <1>3 DEF Fight, Player
  <2>3. QED
    BY <1>1, <2>1, <2>2
<1>4. UNCHANGED fought \/ \E c \in Conn : Fight(c)
  <2>1. ASSUME NEW c \in Conn, ShellStep(c) \/ Command(c)
        PROVE  UNCHANGED fought \/ Fight(c)
    BY <2>1, LobbiesKeepTypes
  <2>2. ASSUME NEW s \in Server, ServerStep(s)
        PROVE  UNCHANGED fought
    BY <2>2 DEF ServerStep, ServerDies, Popped, shellVars
  <2>3. QED
    BY <2>1, <2>2 DEF Next, vars, shellVars
<1>5. fought' \in [Identity -> Nat]
  <2>1. TypeOK'
    BY TypesKept
  <2>2. QED
    BY <2>1, TypeUnfoldedNext DEF TypeParts
<1>6. QED
  BY <1>2, <1>3, <1>4, <1>5

\* What the gate rests on: a completion that is stored, or known to a shell, was fought for.
Stored ==
    \A p \in Identity : profiles[p].completed =>
        profiles[p].exists /\ profiles[p].at # Never /\ fought[p] > 0

HasFought ==
    \A c \in Conn : shell[c].completed \/ shell[c].pc \in {"record", "mark"} =>
        fought[shell[c].id] > 0

GateInv == Stored /\ HasFought /\ QueueGate

LEMMA StoredKept ==
    ASSUME BootInv, TypeOK, GateInv, [Next]_vars
    PROVE  Stored'
<1>1. ConnsOK /\ DBTypeOK /\ fought \in [Identity -> Nat]
  BY TypeUnfolded DEF TypeParts
<1> SUFFICES ASSUME NEW p \in Identity, profiles'[p].completed
             PROVE  profiles'[p].exists /\ profiles'[p].at # Never /\ fought'[p] > 0
  BY DEF Stored
<1>2. fought'[p] >= fought[p] /\ fought'[p] \in Nat /\ fought[p] \in Nat
  BY <1>1, FoughtGrows
<1>3. profiles[p].completed => profiles[p].exists /\ profiles[p].at # Never /\ fought[p] > 0
  BY DEF GateInv, Stored
<1>4. CASE profiles'[p] = profiles[p]
  BY <1>2, <1>3, <1>4
<1>5. CASE profiles'[p] = NewProfile
  BY <1>5 DEF NewProfile
<1>6. CASE /\ profiles'[p].exists /\ profiles'[p].completed = profiles[p].completed
           /\ profiles'[p].at = profiles[p].at
  BY <1>2, <1>3, <1>6
<1>7. ASSUME NEW c \in Conn, MarkCompleted(c), shell[c].id = p, profiles'[p].exists,
             profiles'[p].at = IF profiles[p].at = Never THEN clock ELSE profiles[p].at
      PROVE  profiles'[p].exists /\ profiles'[p].at # Never /\ fought'[p] > 0
  <2>1. fought[p] > 0
    BY <1>7 DEF GateInv, HasFought, MarkCompleted
  <2>2. profiles'[p].at # Never
    BY <1>1, <1>7 DEF DBTypeOK, Never
  <2>3. QED
    BY <1>2, <1>7, <2>1, <2>2
<1>8. QED
  BY <1>4, <1>5, <1>6, <1>7, RowSteps DEF RowStep

\* Who comes to record a run has just fought for it.
LEMMA FightIsFought ==
    ASSUME NEW c \in Conn, ShellStep(c) \/ Command(c), shell[c].pc = "fight"
    PROVE  Fight(c) \/ UNCHANGED shell
  BY DEF ShellStep, Command, LookUp, CreatePlayer, IsUniqueViolation, EnsureProfile, ReadProfile,
         LoginFails, Register, RefuseSession, RecordRun, MarkCompleted, EndOfInput, Leave, Connect,
         FollowPrompts, Play, LeaveQueue, TutorialRetry, Quit, HangUp, Goes, Login

LEMMA HasFoughtKept ==
    ASSUME BootInv, TypeOK, GateInv, [Next]_vars
    PROVE  HasFought'
<1>1. ConnsOK /\ DBTypeOK /\ fought \in [Identity -> Nat]
  BY TypeUnfolded DEF TypeParts
<1>2. /\ fought' \in [Identity -> Nat]
      /\ \A p \in Identity : fought[p] > 0 => fought'[p] > 0
  BY <1>1, FoughtGrows
<1>3. ASSUME NEW c \in Conn, shell[c].completed \/ shell[c].pc \in {"record", "mark"}
      PROVE  shell[c].id \in Identity /\ fought'[shell[c].id] > 0
  <2>1. ConnOK(shell[c])
    BY <1>1 DEF ConnsOK
  <2>2. shell[c].pc \notin {"closed", "lookup", "create", "again"}
    BY <1>3, <2>1 DEF ConnOK, Closed, Session, Tutorial
  <2>3. QED
    BY <1>1, <1>2, <1>3, <2>2, HasPlayer DEF GateInv, HasFought
<1>4. ASSUME NEW c \in Conn, shell'[c] = shell[c] \/ shell'[c] = Closed,
             shell'[c].completed \/ shell'[c].pc \in {"record", "mark"}
      PROVE  fought'[shell'[c].id] > 0
  BY <1>3, <1>4 DEF Closed
<1>5. ASSUME NEW c \in Conn, ShellStep(c) \/ Command(c), NEW d \in Conn,
             shell'[d].completed \/ shell'[d].pc \in {"record", "mark"}
      PROVE  fought'[shell'[d].id] > 0
  <2>1. shell' = [shell EXCEPT ![c] = shell'[c]] /\ (GateFrom(c) \/ UNCHANGED shell)
    BY <1>1, <1>5, Moves
  <2>2. CASE UNCHANGED shell
    BY <1>4, <1>5, <2>2
  <2>3. CASE d # c
    <3>1. shell'[d] = shell[d]
      BY <1>1, <2>1, <2>3 DEF ConnsOK
    <3>2. QED
      BY <1>4, <1>5, <3>1
  <2>4. CASE d = c /\ GateFrom(c)
    <3>1. shell'[c].id = shell[c].id
      BY <1>5, <2>4 DEF GateFrom
    <3>2. CASE shell[c].completed \/ shell[c].pc \in {"record", "mark"}
      BY <1>3, <2>4, <3>1, <3>2
    <3>3. CASE shell[c].id \in Identity /\ profiles[shell[c].id].completed
      BY <1>2, <2>4, <3>1, <3>3 DEF GateInv, Stored
    <3>4. CASE shell[c].pc = "fight" /\ shell'[c].pc = "record"
      <4>1. Fight(c)
        BY <1>5, <3>4, FightIsFought
      <4>2. shell[c].id \in Identity
        BY <1>1, <3>4, HasPlayer
      <4>3. fought'[shell[c].id] = fought[shell[c].id] + 1
        BY <1>1, <4>1, <4>2 DEF Fight, Player
      <4>4. QED
        BY <1>1, <2>4, <3>1, <4>2, <4>3
    <3>5. QED
      BY <1>5, <2>4, <3>2, <3>3, <3>4 DEF GateFrom
  <2>5. QED
    BY <2>1, <2>2, <2>3, <2>4
<1>6. ASSUME NEW s \in Server, ServerStep(s), NEW d \in Conn
      PROVE  shell'[d] = shell[d] \/ shell'[d] = Closed
  <2>1. CASE ServerDies(s)
    BY <2>1, DeathCloses
  <2>2. CASE shell' = shell
    BY <2>2
  <2>3. QED
    BY <1>6, <2>1, <2>2 DEF ServerStep, Popped, shellVars
<1>7. CASE UNCHANGED vars
  BY <1>4, <1>7 DEF vars, shellVars, HasFought
<1>8. QED
  BY <1>4, <1>5, <1>6, <1>7 DEF Next, HasFought

LEMMA QueueGateKept ==
    ASSUME BootInv, TypeOK, GateInv, [Next]_vars
    PROVE  QueueGate'
<1>1. /\ ConnsOK /\ queue \in [Server -> SUBSET Identity] /\ fought \in [Identity -> Nat]
  BY TypeUnfolded DEF TypeParts
<1>2. /\ fought' \in [Identity -> Nat]
      /\ \A p \in Identity : fought[p] > 0 => fought'[p] > 0
  BY <1>1, FoughtGrows
<1>3. \A s \in Server : \A p \in queue'[s] :
          p \in queue[s] \/ \E c \in Conn : p = shell[c].id /\ p \in Identity /\ shell[c].completed
  <2>1. ASSUME NEW c \in Conn, ShellStep(c) \/ Command(c)
        PROVE  Play(c) \/ LeaveQueue(c) \/ Leave(c) \/ UNCHANGED queue
    BY <2>1
       DEF ShellStep, Command, LookUp, CreatePlayer, IsUniqueViolation, EnsureProfile, ReadProfile,
           LoginFails, Register, RefuseSession, Fight, RecordRun, MarkCompleted, EndOfInput, Connect,
           FollowPrompts, TutorialRetry, Quit, HangUp, lobbies
  <2>2. ASSUME NEW c \in Conn, Play(c)
        PROVE  /\ shell[c].id \in Identity /\ shell[c].completed
               /\ \A s \in Server : queue'[s] \subseteq queue[s] \cup {shell[c].id}
    <3>1. shell[c].id \in Identity
      BY <1>1, <2>2, HasPlayer DEF Play
    <3>2. QED
      BY <1>1, <2>2, <3>1 DEF Play, Player
  <2>3. ASSUME NEW c \in Conn, LeaveQueue(c) \/ Leave(c)
        PROVE  \A s \in Server : queue'[s] \subseteq queue[s]
    BY <1>1, <2>3 DEF LeaveQueue, Leave
  <2>4. ASSUME NEW s \in Server, ServerStep(s)
        PROVE  \A r \in Server : queue'[r] \subseteq queue[r]
    <3>1. CASE ServerDies(s)
      BY <3>1, DeathCloses
    <3>2. CASE \E p \in Identity : Popped(s, p)
      BY <1>1, <3>2 DEF Popped
    <3>3. CASE UNCHANGED shellVars
      BY <3>3 DEF shellVars, lobbies
    <3>4. QED
      BY <2>4, <3>1, <3>2, <3>3 DEF ServerStep
  <2>5. CASE UNCHANGED vars
    BY <2>5 DEF vars, shellVars, lobbies
  <2>6. CASE \E c \in Conn : ShellStep(c) \/ Command(c)
    BY <2>1, <2>2, <2>3, <2>6
  <2>7. QED
    BY <2>4, <2>5, <2>6 DEF Next
<1>4. \A s \in Server : queue[s] \subseteq Identity
  BY <1>1
<1>5. QED
  BY <1>2, <1>3, <1>4 DEF GateInv, QueueGate, HasFought

LEMMA GateKept == BootInv /\ TypeOK /\ GateInv /\ [Next]_vars => GateInv'
  BY StoredKept, HasFoughtKept, QueueGateKept DEF GateInv

LEMMA GateStarts == Init => GateInv
<1> SUFFICES ASSUME Init PROVE GateInv
  OBVIOUS
<1>1. \A c \in Conn : shell[c].completed = FALSE /\ shell[c].pc = "closed"
  BY Starts DEF Closed
<1>2. \A p \in Identity : profiles[p].completed = FALSE
  BY DEF Init, DBInit, NoProfile
<1>3. QED
  BY <1>1, <1>2 DEF GateInv, Stored, HasFought, QueueGate, Init

\* docs/m3-ssh-protocol.md, "Queue command q is blocked until tutorial completion.": for any
\* connections and servers, and whatever statements fail (runShell, RunTutorial).
THEOREM GateHolds == Spec => []QueueGate
<1>1. Init => BootInv /\ TypeOK /\ GateInv
  BY Starts, GateStarts
<1>2. BootInv /\ TypeOK /\ GateInv /\ [Next]_vars => (BootInv /\ TypeOK /\ GateInv)'
  BY TypesKept, GateKept
<1>3. GateInv => QueueGate
  BY DEF GateInv
<1>4. QED
  BY <1>1, <1>2, <1>3, PTL DEF Spec

\* A stored completion stays, with the time of the first one, whatever is written
\* afterwards (MarkTutorialCompleted, EnsurePlayerProfile, CreateTutorialRun).
THEOREM CompletionStays == Spec => CompletionIsFinal
<1>1. Init => BootInv /\ TypeOK /\ GateInv
  BY Starts, GateStarts
<1>2. BootInv /\ TypeOK /\ GateInv /\ [Next]_vars => (BootInv /\ TypeOK /\ GateInv)'
  BY TypesKept, GateKept
<1>3. ASSUME TypeOK, GateInv, [Next]_vars, NEW p \in Identity, profiles[p].completed
      PROVE  profiles'[p].completed /\ profiles'[p].at = profiles[p].at
  BY <1>3, RowSteps DEF RowStep, GateInv, Stored
<1>4. TypeOK /\ GateInv /\ [Next]_vars =>
        [\A p \in Identity : profiles[p].completed =>
             profiles'[p].completed /\ profiles'[p].at = profiles[p].at]_vars
  BY <1>3
<1>5. QED
  BY <1>1, <1>2, <1>4, PTL DEF Spec, CompletionIsFinal

----------------------------------------------------------------------------
(* The runs and their counter.                                              *)

\* The connections that have fought for p a run that is not recorded yet.
Recording(p) == {c \in Conn : shell[c].pc = "record" /\ shell[c].id = p}

\* Each of them has a fight of its own.
CountInv ==
    \A p \in Identity :
        /\ profiles[p].runs = runs[p]
        /\ ~profiles[p].exists => runs[p] = 0
        /\ runs[p] + Cardinality(Recording(p)) <= fought[p]

\* A fight brings one connection there, its record takes it away, nothing else matters.
LEMMA RecordingSteps ==
    ASSUME TypeOK, [Next]_vars, NEW p \in Identity
    PROVE  \/ \E c \in Conn : /\ Fight(c) /\ shell[c].id = p
                              /\ Recording(p)' \subseteq Recording(p) \cup {c}
           \/ \E c \in Recording(p) : RecordRun(c) /\ Recording(p)' \subseteq Recording(p) \ {c}
           \/ /\ ~\E c \in Conn : (Fight(c) \/ RecordRun(c)) /\ shell[c].id = p
              /\ Recording(p)' \subseteq Recording(p)
<1>1. ConnsOK /\ DBTypeOK
  BY TypeUnfolded DEF TypeParts
<1>2. ASSUME NEW c \in Conn, ShellStep(c) \/ Command(c)
      PROVE  /\ Recording(p)' \subseteq Recording(p) \cup {c}
             /\ ~(Fight(c) /\ shell[c].id = p) => Recording(p)' \subseteq Recording(p)
  <2>1. shell' = [shell EXCEPT ![c] = shell'[c]] /\ (GateFrom(c) \/ UNCHANGED shell)
    BY <1>1, <1>2, Moves
  <2>2. \A d \in Conn \ {c} : shell'[d] = shell[d]
    BY <1>1, <2>1 DEF ConnsOK
  <2>3. c \in Recording(p)' => c \in Recording(p) \/ (Fight(c) /\ shell[c].id = p)
    <3>1. CASE UNCHANGED shell
      BY <3>1 DEF Recording
    <3>2. CASE GateFrom(c) /\ ~UNCHANGED shell
      BY <1>2, <3>2, FightIsFought DEF GateFrom, Recording
    <3>3. QED
      BY <2>1, <3>1, <3>2
  <2>4. QED
    BY <2>2, <2>3 DEF Recording
<1>3. ASSUME NEW c \in Conn, RecordRun(c), shell[c].id = p
      PROVE  c \in Recording(p) /\ Recording(p)' \subseteq Recording(p) \ {c}
  <2>1. shell[c].pc = "record" /\ shell'[c].pc = "mark"
    BY <1>1, <1>3 DEF RecordRun, Goes, ConnsOK, ConnType
  <2>2. ~Fight(c)
    BY <2>1 DEF Fight, Goes
  <2>3. Recording(p)' \subseteq Recording(p)
    BY <1>2, <1>3, <2>2 DEF ShellStep
  <2>4. QED
    BY <1>3, <2>1, <2>3 DEF Recording
<1>4. ASSUME NEW s \in Server, ServerStep(s)
      PROVE  /\ Recording(p)' \subseteq Recording(p)
             /\ UNCHANGED shell \/ ServerDies(s)
  <2>1. CASE ServerDies(s)
    <3>1. \A c \in Conn : shell'[c] = shell[c] \/ shell'[c].pc = "closed"
      BY <2>1, DeathCloses DEF Closed
    <3>2. QED
      BY <2>1, <3>1 DEF Recording
  <2>2. CASE UNCHANGED shell
    BY <2>2 DEF Recording
  <2>3. QED
    BY <1>4, <2>1, <2>2 DEF ServerStep, Popped, shellVars
<1>5. UNCHANGED vars => Recording(p)' \subseteq Recording(p)
  BY DEF vars, shellVars, Recording
<1>6. Recording(p)' \subseteq Recording(p) \/ \E c \in Conn : /\ Fight(c) /\ shell[c].id = p
                              /\ Recording(p)' \subseteq Recording(p) \cup {c}
  <2>1. CASE \E c \in Conn : ShellStep(c) \/ Command(c)
    BY <1>2, <2>1
  <2>2. QED
    BY <1>4, <1>5, <2>1 DEF Next
<1>7. CASE \E c \in Conn : RecordRun(c) /\ shell[c].id = p
  <2>1. PICK c \in Conn : RecordRun(c) /\ shell[c].id = p
    BY <1>7
  <2>2. c \in Recording(p) /\ Recording(p)' \subseteq Recording(p) \ {c}
    BY <1>3, <2>1
  <2>3. QED
    BY <2>1, <2>2
<1>8. CASE \E c \in Conn : Fight(c) /\ shell[c].id = p
  <2>1. PICK c \in Conn : Fight(c) /\ shell[c].id = p
    BY <1>8
  <2>2. Recording(p)' \subseteq Recording(p) \cup {c}
    BY <1>2, <2>1 DEF ShellStep
  <2>3. QED
    BY <2>1, <2>2
<1>9. QED
  BY <1>6, <1>7, <1>8

LEMMA Cardinalities ==
    ASSUME ConnsOK, NEW p
    PROVE  IsFiniteSet(Recording(p)) /\ Cardinality(Recording(p)) \in Nat
<1>1. Recording(p) \subseteq Conn
  BY DEF Recording
<1>2. QED
  BY <1>1, ShellConstants, FS_Subset, FS_CardinalityType

LEMMA CountKept ==
    ASSUME BootInv, TypeOK, CountInv, [Next]_vars
    PROVE  CountInv'
<1>1. /\ ConnsOK /\ DBTypeOK /\ fought \in [Identity -> Nat] /\ runs \in [Identity -> Nat]
      /\ profiles \in [Identity -> Row]
  BY TypeUnfolded DEF TypeParts, DBTypeOK, Row
<1> SUFFICES ASSUME NEW p \in Identity
             PROVE  /\ profiles'[p].runs = runs'[p]
                    /\ ~profiles'[p].exists => runs'[p] = 0
                    /\ runs'[p] + Cardinality(Recording(p)') <= fought'[p]
  BY DEF CountInv
<1> DEFINE here == Cardinality(Recording(p))
           next == Cardinality(Recording(p)')
<1>2. /\ profiles[p].runs = runs[p] /\ (~profiles[p].exists => runs[p] = 0)
      /\ runs[p] + here <= fought[p] /\ runs[p] \in Nat /\ fought[p] \in Nat
  BY <1>1 DEF CountInv
<1>3. IsFiniteSet(Recording(p)) /\ here \in Nat
  BY <1>1, Cardinalities
<1>4. fought' \in [Identity -> Nat] /\ fought'[p] \in Nat /\ fought'[p] >= fought[p]
  BY FoughtGrows
<1>5. RowStep(p)
  BY RowSteps
<1>6. profiles'[p].runs = runs'[p] /\ (~profiles'[p].exists => runs'[p] = 0)
  BY <1>2, <1>5 DEF RowStep, NewProfile
<1>7. runs'[p] = runs[p] \/ (runs'[p] = runs[p] + 1 /\ \E c \in Conn : RecordRun(c) /\ shell[c].id = p)
  BY <1>5 DEF RowStep
<1>8. ASSUME NEW S, IsFiniteSet(S), Recording(p)' \subseteq S
      PROVE  next \in Nat /\ next <= Cardinality(S) /\ Cardinality(S) \in Nat
  BY <1>8, FS_Subset, FS_CardinalityType
<1>9. ASSUME NEW c \in Conn, Fight(c), shell[c].id = p, Recording(p)' \subseteq Recording(p) \cup {c}
      PROVE  runs'[p] + next <= fought'[p]
  <2>1. shell[c].pc = "fight" /\ fought'[p] = fought[p] + 1 /\ UNCHANGED runs
    BY <1>1, <1>9 DEF Fight, Goes, Player, dbVars
  <2>2. /\ IsFiniteSet(Recording(p) \cup {c})
        /\ Cardinality(Recording(p) \cup {c}) \in {here, here + 1}
    BY <1>3, FS_AddElement
  <2>3. next \in Nat /\ next <= here + 1
    BY <1>3, <1>8, <1>9, <2>2
  <2> HIDE DEF here, next
  <2>4. QED
    BY <1>2, <1>3, <2>1, <2>3
<1>10. ASSUME NEW c \in Recording(p), RecordRun(c), Recording(p)' \subseteq Recording(p) \ {c}
       PROVE  runs'[p] + next <= fought'[p]
  <2>1. IsFiniteSet(Recording(p) \ {c}) /\ Cardinality(Recording(p) \ {c}) = here - 1
    BY <1>3, FS_RemoveElement
  <2>2. next \in Nat /\ next <= here - 1
    BY <1>8, <1>10, <2>1
  <2> HIDE DEF here, next
  <2>3. QED
    BY <1>2, <1>3, <1>4, <1>7, <2>2
<1>11. ASSUME ~\E c \in Conn : (Fight(c) \/ RecordRun(c)) /\ shell[c].id = p,
              Recording(p)' \subseteq Recording(p)
       PROVE  runs'[p] + next <= fought'[p]
  <2>1. next \in Nat /\ next <= here /\ runs'[p] = runs[p]
    BY <1>3, <1>7, <1>8, <1>11
  <2> HIDE DEF here, next
  <2>2. QED
    BY <1>2, <1>3, <1>4, <2>1
<1>12. runs'[p] + next <= fought'[p]
  BY <1>9, <1>10, <1>11, RecordingSteps
<1>13. QED
  BY <1>6, <1>12

LEMMA CountStarts == Init => CountInv
<1> SUFFICES ASSUME Init, NEW p \in Identity
             PROVE  /\ profiles[p].runs = runs[p] /\ runs[p] = 0
                    /\ runs[p] + Cardinality(Recording(p)) <= fought[p]
  BY DEF CountInv
<1>1. Recording(p) = {}
  BY Starts DEF Recording, Closed
<1>2. Cardinality(Recording(p)) = 0
  BY <1>1, FS_EmptySet
<1>3. QED
  BY <1>2 DEF Init, DBInit, NoProfile

\* Every recorded run is counted once and was fought, for any number of sessions of one
\* player on any servers, and whatever fails (CreateTutorialRun).
THEOREM EveryRunCounted == Spec => []RunsCounted
<1>1. Init => BootInv /\ TypeOK /\ CountInv
  BY Starts, CountStarts
<1>2. BootInv /\ TypeOK /\ CountInv /\ [Next]_vars => (BootInv /\ TypeOK /\ CountInv)'
  BY TypesKept, CountKept
<1>3. TypeOK /\ CountInv => RunsCounted
  <2> SUFFICES ASSUME TypeOK, CountInv, NEW p \in Identity
               PROVE  profiles[p].runs = runs[p] /\ runs[p] <= fought[p]
    BY DEF RunsCounted
  <2>1. runs[p] \in Nat /\ fought[p] \in Nat /\ ConnsOK
    BY TypeUnfolded DEF TypeParts, DBTypeOK
  <2>2. Cardinality(Recording(p)) \in Nat
    BY <2>1, Cardinalities
  <2>3. runs[p] + Cardinality(Recording(p)) <= fought[p] /\ profiles[p].runs = runs[p]
    BY DEF CountInv
  <2>4. QED
    BY <2>1, <2>2, <2>3
<1>4. QED
  BY <1>1, <1>2, <1>3, PTL DEF Spec

----------------------------------------------------------------------------
(* Whose session it is.                                                     *)

\* The connection is in a session exactly if it was, and in the same one.
InSame(c) ==
    /\ shell'[c].pc \in Session <=> shell[c].pc \in Session
    /\ shell[c].pc \in Session => shell'[c].id = shell[c].id /\ shell'[c].server = shell[c].server

\* Only Register begins a session and only Leave ends one; nothing else but the queue
\* commands touches the lobby.
LEMMA SessionSteps ==
    ASSUME TypeOK, NEW c \in Conn, ShellStep(c) \/ Command(c)
    PROVE  \/ Register(c) \/ Leave(c)
           \/ Play(c) \/ LeaveQueue(c)
           \/ UNCHANGED lobbies /\ InSame(c)
<1>1. /\ ConnsOK /\ DBTypeOK /\ shell[c] \in ConnType /\ shell \in [Conn -> ConnType]
  BY TypeUnfolded DEF TypeParts, ConnsOK
<1>2. \A w \in Ways : w[1] # "register" => (w[1] \in Session <=> w[2] \in Session)
  BY DEF Ways, Session, Tutorial
<1>3. CASE GoesOnly(c) /\ ~Register(c)
  <2>1. UNCHANGED lobbies /\ shell[c].pc # "register"
    <3>1. CASE LookUp(c) \/ IsUniqueViolation(c) \/ EnsureProfile(c)
      BY <3>1 DEF LookUp, IsUniqueViolation, EnsureProfile, Goes
    <3>2. CASE FollowPrompts(c) \/ Fight(c) \/ RecordRun(c)
      BY <3>2 DEF FollowPrompts, Fight, RecordRun, Goes
    <3>3. CASE TutorialRetry(c) \/ Quit(c) \/ EndOfInput(c)
      BY <3>3 DEF TutorialRetry, Quit, EndOfInput, Goes
    <3>4. QED
      BY <1>3, <3>1, <3>2, <3>3 DEF GoesOnly
  <2>2. /\ <<shell[c].pc, shell'[c].pc>> \in Ways
        /\ shell'[c].id = shell[c].id /\ shell'[c].server = shell[c].server
    BY <1>1, <1>3, WaysAreOK
  <2>3. QED
    BY <1>2, <2>1, <2>2 DEF InSame
<1>4. CASE LoginFails(c) \/ RefuseSession(c)
  <2>1. UNCHANGED lobbies /\ shell[c].pc \in Login /\ shell'[c] = Closed
    BY <1>1, <1>4 DEF LoginFails, RefuseSession, Closes, Login
  <2>2. QED
    BY <2>1 DEF InSame, Closed, Login, Session, Tutorial
<1>5. CASE (LookUp(c) /\ players[shell[c].handle] # Nobody) \/ CreatePlayer(c) \/ ReadProfile(c)
  <2>1. UNCHANGED lobbies /\ shell[c].pc \in Login
    BY <1>5 DEF LookUp, CreatePlayer, ReadProfile, Login
  <2>2. shell'[c].pc \in {"ensure", "register"}
    <3>1. CASE LookUp(c) /\ players[shell[c].handle] # Nobody
      BY <1>1, <3>1 DEF LookUp, ConnType
    <3>2. CASE CreatePlayer(c)
      BY <1>1, <3>2 DEF CreatePlayer, ConnType
    <3>3. CASE ReadProfile(c)
      BY <1>1, <3>3 DEF ReadProfile, ConnType
    <3>4. QED
      BY <1>5, <3>1, <3>2, <3>3
  <2>3. QED
    BY <2>1, <2>2 DEF InSame, Login, Session, Tutorial
<1>6. CASE MarkCompleted(c)
  <2>1. /\ UNCHANGED lobbies /\ shell[c].pc = "mark" /\ shell'[c].pc = "prompt"
        /\ shell'[c].id = shell[c].id /\ shell'[c].server = shell[c].server
    BY <1>1, <1>6 DEF MarkCompleted, ConnType
  <2>2. QED
    BY <2>1 DEF InSame, Session, Tutorial
<1>7. CASE HangUp(c)
  BY <1>7 DEF HangUp, InSame
<1>8. CASE \E s \in Server, h \in Handle : Connect(c, s, h)
  <2>1. UNCHANGED lobbies /\ shell[c].pc = "closed" /\ shell'[c].pc = "lookup"
    BY <1>1, <1>8 DEF Connect, ConnType
  <2>2. QED
    BY <2>1 DEF InSame, Session, Tutorial
<1>9. QED
  BY <1>3, <1>4, <1>5, <1>6, <1>7, <1>8 DEF ShellStep, Command, GoesOnly

\* What is said of one server.
HasOwners(s) ==
    /\ registered[s] = {shell[c].id : c \in Owners(s)}
    /\ queue[s] \subseteq registered[s]
    /\ \A c, d \in Owners(s) : shell[c].id = shell[d].id => c = d

LEMMA OwnersOfAll == OneSessionEach <=> \A s \in Server : HasOwners(s)
  BY DEF OneSessionEach, HasOwners, Player

LEMMA OwnersOfAllNext == OneSessionEach' <=> \A s \in Server : HasOwners(s)'
  BY DEF OneSessionEach, HasOwners, Player

\* A server keeps its owners when nothing of theirs changes and nobody new is queued.
LEMMA SameOwners ==
    ASSUME NEW s \in Server, HasOwners(s),
           \A c \in Conn : shell'[c].pc \in Session /\ shell'[c].server = s
                              <=> shell[c].pc \in Session /\ shell[c].server = s,
           \A c \in Owners(s) : shell'[c].id = shell[c].id,
           registered'[s] = registered[s], queue'[s] \subseteq registered[s]
    PROVE  HasOwners(s)'
<1>1. Owners(s)' = Owners(s)
  BY DEF Owners, On
<1>2. QED
  BY <1>1 DEF HasOwners

LEMMA OwnersKept ==
    ASSUME TypeOK, OneSessionEach, [Next]_vars
    PROVE  OneSessionEach'
<1>1. /\ ConnsOK /\ DBTypeOK /\ shell \in [Conn -> ConnType]
      /\ registered \in [Server -> SUBSET Identity] /\ queue \in [Server -> SUBSET Identity]
  BY TypeUnfolded DEF TypeParts, ConnsOK
<1> SUFFICES ASSUME NEW s \in Server PROVE HasOwners(s)'
  BY OwnersOfAllNext
<1>2. HasOwners(s)
  BY OwnersOfAll
<1>3. ASSUME UNCHANGED shell, registered'[s] = registered[s],
             queue'[s] \subseteq registered[s]
      PROVE  HasOwners(s)'
  BY <1>2, <1>3, SameOwners DEF Owners
<1>4. ASSUME NEW c \in Conn, Register(c)
      PROVE  HasOwners(s)'
  <2>1. /\ shell[c].pc = "register" /\ shell'[c].pc \in {"prompt", "guided"}
        /\ shell' = [shell EXCEPT ![c] = shell'[c]]
        /\ shell'[c].id = shell[c].id /\ shell'[c].server = shell[c].server
        /\ shell[c].id \in Identity /\ shell[c].server \in Server
    <3>1. shell[c].pc = "register"
      BY <1>4 DEF Register
    <3>2. /\ <<shell[c].pc, shell'[c].pc>> \in Ways
          /\ shell' = [shell EXCEPT ![c] = shell'[c]]
          /\ shell'[c].id = shell[c].id /\ shell'[c].server = shell[c].server
      BY <1>1, <1>4, WaysAreOK DEF GoesOnly
    <3>3. QED
      BY <1>1, <3>1, <3>2, HasPlayer DEF Ways
  <2>2. /\ shell[c].id \notin registered[shell[c].server] /\ UNCHANGED queue
        /\ registered' = [registered EXCEPT ![shell[c].server] = @ \cup {shell[c].id}]
    BY <1>4 DEF Register, Player, On
  <2>3. \A d \in Conn \ {c} : shell'[d] = shell[d]
    BY <1>1, <2>1
  <2>4. c \notin Owners(s)
    BY <2>1 DEF Owners, Session, Tutorial
  <2>5. CASE shell[c].server = s
    <3>1. Owners(s)' = Owners(s) \cup {c}
      BY <2>1, <2>3, <2>5 DEF Owners, On, Session, Tutorial
    <3>2. registered'[s] = registered[s] \cup {shell[c].id}
      BY <1>1, <2>2, <2>5
    <3>3. \A d \in Owners(s) : shell'[d].id = shell[d].id /\ shell[d].id # shell[c].id
      BY <1>2, <2>2, <2>3, <2>4, <2>5 DEF HasOwners, Owners
    <3>4. registered'[s] = {shell'[d].id : d \in Owners(s)'}
      BY <1>2, <2>1, <3>1, <3>2, <3>3 DEF HasOwners
    <3>5. \A d, e \in Owners(s)' : shell'[d].id = shell'[e].id => d = e
      BY <1>2, <2>1, <3>1, <3>3 DEF HasOwners
    <3>6. QED
      BY <1>2, <2>2, <3>2, <3>4, <3>5 DEF HasOwners
  <2>6. CASE shell[c].server # s
    <3>1. registered'[s] = registered[s] /\ queue'[s] \subseteq registered[s]
      BY <1>1, <1>2, <2>1, <2>2, <2>6 DEF HasOwners
    <3>2. \A d \in Conn : shell'[d].pc \in Session /\ shell'[d].server = s
                              <=> shell[d].pc \in Session /\ shell[d].server = s
      BY <2>1, <2>3, <2>6
    <3>3. \A d \in Owners(s) : shell'[d].id = shell[d].id
      BY <2>3, <2>4 DEF Owners
    <3>4. QED
      BY <1>2, <3>1, <3>2, <3>3, SameOwners
  <2>7. QED
    BY <2>5, <2>6
<1>5. ASSUME NEW c \in Conn, Leave(c)
      PROVE  HasOwners(s)'
  <2>1. /\ shell[c].pc = "leave" /\ shell' = [shell EXCEPT ![c] = Closed]
        /\ queue' = [queue EXCEPT ![shell[c].server] = @ \ {shell[c].id}]
        /\ registered' = [registered EXCEPT ![shell[c].server] = @ \ {shell[c].id}]
    BY <1>5 DEF Leave, Closes, Player, On
  <2>2. shell[c].id \in Identity /\ shell[c].server \in Server
    BY <1>1, <2>1, HasPlayer
  <2>3. shell'[c].pc \notin Session /\ \A d \in Conn \ {c} : shell'[d] = shell[d]
    BY <1>1, <2>1 DEF Closed, Session, Tutorial
  <2>4. CASE shell[c].server = s
    <3>1. c \in Owners(s) /\ Owners(s)' = Owners(s) \ {c}
      BY <2>1, <2>3, <2>4 DEF Owners, On, Session
    <3>2. /\ registered'[s] = registered[s] \ {shell[c].id}
          /\ queue'[s] = queue[s] \ {shell[c].id}
      BY <1>1, <2>1, <2>4
    <3>3. \A d \in Owners(s)' : d \in Owners(s) /\ shell'[d].id = shell[d].id /\ shell[d].id # shell[c].id
      BY <1>2, <2>3, <3>1 DEF HasOwners, Owners
    <3>4. registered'[s] = {shell'[d].id : d \in Owners(s)'}
      BY <1>2, <3>1, <3>2, <3>3 DEF HasOwners
    <3>5. QED
      BY <1>2, <3>2, <3>3, <3>4 DEF HasOwners
  <2>5. CASE shell[c].server # s
    <3>1. registered'[s] = registered[s] /\ queue'[s] \subseteq registered[s]
      BY <1>1, <1>2, <2>1, <2>2, <2>5 DEF HasOwners
    <3>2. c \notin Owners(s)
      BY <2>5 DEF Owners, On
    <3>3. \A d \in Conn : shell'[d].pc \in Session /\ shell'[d].server = s
                              <=> shell[d].pc \in Session /\ shell[d].server = s
      BY <2>3, <2>5
    <3>4. \A d \in Owners(s) : shell'[d].id = shell[d].id
      BY <2>3, <3>2 DEF Owners
    <3>5. QED
      BY <1>2, <3>1, <3>3, <3>4, SameOwners
  <2>6. QED
    BY <2>4, <2>5
<1>6. ASSUME NEW c \in Conn, Play(c) \/ LeaveQueue(c)
      PROVE  HasOwners(s)'
  <2>1. UNCHANGED <<shell, registered>> /\ shell[c].pc \in Session
    BY <1>6 DEF Play, LeaveQueue, Session
  <2>2. shell[c].id \in Identity /\ shell[c].server \in Server
    BY <1>1, <2>1, HasPlayer DEF Session, Tutorial
  <2>3. queue'[s] \subseteq queue[s] \cup (IF shell[c].server = s THEN {shell[c].id} ELSE {})
    BY <1>1, <1>6, <2>2 DEF Play, LeaveQueue, Player, On
  <2>4. shell[c].server = s => shell[c].id \in registered[s]
    BY <1>2, <2>1 DEF HasOwners, Owners, On
  <2>5. queue'[s] \subseteq registered[s]
    BY <1>2, <2>3, <2>4 DEF HasOwners
  <2>6. QED
    BY <1>3, <2>1, <2>5
<1>7. ASSUME NEW c \in Conn, ShellStep(c) \/ Command(c), UNCHANGED lobbies, InSame(c)
      PROVE  HasOwners(s)'
  <2>1. \A d \in Conn \ {c} : shell'[d] = shell[d]
    <3>1. shell' = [shell EXCEPT ![c] = shell'[c]]
      BY <1>1, <1>7, Moves
    <3>2. QED
      BY <1>1, <3>1
  <2>2. \A d \in Conn : shell'[d].pc \in Session /\ shell'[d].server = s
                            <=> shell[d].pc \in Session /\ shell[d].server = s
    BY <1>7, <2>1 DEF InSame
  <2>3. \A d \in Owners(s) : shell'[d].id = shell[d].id
    BY <1>7, <2>1 DEF InSame, Owners
  <2>4. registered'[s] = registered[s] /\ queue'[s] \subseteq registered[s]
    BY <1>2, <1>7 DEF lobbies, HasOwners
  <2>5. QED
    BY <1>2, <2>2, <2>3, <2>4, SameOwners
<1>8. ASSUME NEW r \in Server, ServerStep(r)
      PROVE  HasOwners(s)'
  <2>1. CASE UNCHANGED shellVars
    BY <1>2, <1>3, <2>1 DEF shellVars, lobbies, HasOwners
  <2>2. CASE \E p \in Identity : Popped(r, p)
    BY <1>1, <1>2, <1>3, <2>2 DEF Popped, HasOwners
  <2>3. CASE ServerDies(r)
    <3>1. \A c \in Conn : shell'[c] = IF shell[c].server = r THEN Closed ELSE shell[c]
      BY <2>3, DeathCloses
    <3>2. registered' = [registered EXCEPT ![r] = {}] /\ queue' = [queue EXCEPT ![r] = {}]
      BY <2>3 DEF ServerDies
    <3>3. CASE r = s
      <4>1. registered'[s] = {} /\ queue'[s] = {}
        BY <1>1, <3>2, <3>3
      <4>2. \A c \in Conn : ~(shell'[c].pc \in Session /\ shell'[c].server = s)
        BY <3>1, <3>3 DEF Closed, Session, Tutorial
      <4>3. Owners(s)' = {}
        BY <4>2 DEF Owners, On
      <4>4. QED
        BY <4>1, <4>3 DEF HasOwners
    <3>4. CASE r # s
      <4>1. registered'[s] = registered[s] /\ queue'[s] \subseteq registered[s]
        BY <1>1, <1>2, <3>2, <3>4 DEF HasOwners
      <4>2. \A c \in Conn : shell'[c].pc \in Session /\ shell'[c].server = s
                                <=> shell[c].pc \in Session /\ shell[c].server = s
        BY <3>1, <3>4 DEF Closed, Session, Tutorial
      <4>3. \A c \in Owners(s) : shell'[c].id = shell[c].id
        BY <3>1, <3>4 DEF Owners, On
      <4>4. QED
        BY <1>2, <4>1, <4>2, <4>3, SameOwners
    <3>5. QED
      BY <3>3, <3>4
  <2>4. QED
    BY <1>8, <2>1, <2>2, <2>3 DEF ServerStep
<1>9. CASE UNCHANGED vars
  BY <1>2, <1>3, <1>9 DEF vars, shellVars, lobbies, HasOwners
<1>10. QED
  BY <1>4, <1>5, <1>6, <1>7, <1>8, <1>9, SessionSteps DEF Next

\* Everybody registered or queued has exactly one shell, which takes him out when it ends:
\* for any number of connections of one player on any servers, whatever fails and wherever
\* a server dies (Register and the deferred calls in runShell).
THEOREM SessionsHaveOwners == Spec => []OneSessionEach
<1>1. Init => BootInv /\ TypeOK /\ OneSessionEach
  <2> SUFFICES ASSUME Init PROVE OneSessionEach
    BY Starts
  <2>1. \A s \in Server : Owners(s) = {}
    BY Starts DEF Owners, Closed, Session, Tutorial
  <2>2. QED
    BY <2>1 DEF OneSessionEach, Init
<1>2. BootInv /\ TypeOK /\ OneSessionEach /\ [Next]_vars => (BootInv /\ TypeOK /\ OneSessionEach)'
  BY TypesKept, OwnersKept
<1>3. QED
  BY <1>1, <1>2, PTL DEF Spec
==============================================================================
