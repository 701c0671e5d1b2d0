---------------------------- MODULE ClientProofs ----------------------------
(***************************************************************************)
(* What TLAPS proves of the smaller components of a device, each for any    *)
(* number of changes, requests, failures and restarts.                      *)
(***************************************************************************)
EXTENDS Encryption, ClientControl, TrayState, Updater, TLAPS

---------------------------------------------------------------------------
(* Encryption: plaintext leaves a device that has the passphrase only on    *)
(* somebody's word.                                                         *)

PartySteps == {"idle", "asks", "answered", "applied", "kept", "looks", "works"}
Party == [at : PartySteps, key : BOOLEAN, on : BOOLEAN, answer : Nat, knew : Nat, unsure : BOOLEAN]

LEMMA MaxNat ==
  ASSUME NEW a \in Nat, NEW b \in Nat
  PROVE  Max({a, b}) \in Nat
  <1>1. \E x \in {a, b} : \A y \in {a, b} : x >= y
    OBVIOUS
  <1>2. Max({a, b}) \in {a, b}
    BY <1>1 DEF Max
  <1> QED
    BY <1>2

---------------------------------------------------------------------------
(* The inductive invariant. *)

\* A client has an answer in its hand, goes by it, or went by what was known.
\* On's arithmetic plays no part: the same number is asked twice.
GoesByTheAnswer(p) ==
  /\ p.at = "answered" => p.answer # Never
  /\ p.at \in {"applied", "kept", "looks"} => p.knew # Never /\ (p.on <=> On(p.knew))
  /\ p.at = "works" /\ p.key /\ ~p.on /\ ~p.unsure => p.knew # Never /\ ~On(p.knew)

PartiesInv == party \in [Processes -> Party] /\ \A c \in Processes : GoesByTheAnswer(party[c])

\* Nobody answers "never".
Asker == [at : {"none", "ticks", "answered", "applied", "kept", "looks"}, answer : Nat]
AnswersInv ==
  /\ account \in Nat \ {Never}
  /\ lateAsker \in [1 .. MaxRuns -> Asker]
  /\ \A r \in 1 .. MaxRuns : lateAsker[r].at = "answered" => lateAsker[r].answer # Never
  /\ enabling \in [at : {"none", "saved", "enabled", "kept"}, answer : Nat]

\* Unless it slipped, the newest answer is remembered.
CacheInv == told \in Nat /\ remembered \in Nat /\ slipped \in BOOLEAN /\ (~slipped => remembered = told)

EncryptionInv == PartiesInv /\ AnswersInv /\ CacheInv /\ passphrase \in BOOLEAN

LEMMA InitEncryptionInv == EncryptionInit => EncryptionInv
  <1> SUFFICES ASSUME EncryptionInit PROVE EncryptionInv
    OBVIOUS
  <1> USE DEF EncryptionInit, Never
  <1>1. account \in Nat \ {Never} /\ remembered \in Nat
    OBVIOUS
  <1>2. NotRunning \in Party /\ GoesByTheAnswer(NotRunning)
    BY DEF NotRunning, Party, PartySteps, GoesByTheAnswer
  <1>3. PartiesInv
    BY <1>2 DEF PartiesInv
  <1>4. AnswersInv
    BY <1>1 DEF AnswersInv, Asker, NotEnabling
  <1>5. CacheInv /\ passphrase \in BOOLEAN
    BY <1>1 DEF CacheInv
  <1> QED
    BY <1>3, <1>4, <1>5 DEF EncryptionInv

---------------------------------------------------------------------------
(* What the steps are made of. *)

\* One client moves on to the local state p.
LEMMA PartyMoves ==
  ASSUME PartiesInv, NEW c \in Processes, NEW p \in Party, GoesByTheAnswer(p),
         party' = [party EXCEPT ![c] = p]
  PROVE  PartiesInv'
  BY DEF PartiesInv

\* A goroutine moves on to the local state a.
LEMMA AskerMoves ==
  ASSUME AnswersInv, NEW r \in 1 .. MaxRuns, NEW a \in Asker, a.at = "answered" => a.answer # Never,
         lateAsker' = [lateAsker EXCEPT ![r] = a], UNCHANGED <<account, enabling>>
  PROVE  AnswersInv'
  BY DEF AnswersInv

\* A write of the cache says itself whether the newest answer slipped.
LEMMA CacheWrites ==
  ASSUME CacheInv, NEW n \in Nat, KeepAnswer(n) \/ WriteBack(n)
  PROVE  CacheInv'
  <1>1. told' \in Nat
    BY MaxNat DEF CacheInv, KeepAnswer, WriteBack
  <1>2. remembered' \in Nat
    BY DEF CacheInv, KeepAnswer, WriteBack
  <1>3. slipped' = (remembered' # told')
    BY DEF KeepAnswer, WriteBack
  <1> QED
    BY <1>1, <1>2, <1>3 DEF CacheInv

LEMMA AsReadNat == ASSUME NEW n \in Nat PROVE AsRead(n) \in Nat
  BY DEF AsRead

\* A client that begins knows nothing.
LEMMA BeginsKeeps ==
  ASSUME PartiesInv, passphrase \in BOOLEAN, NEW c \in Processes, party' = Begun(c)
  PROVE  PartiesInv'
  <1> DEFINE p == [NotRunning EXCEPT !.at = "asks", !.key = passphrase]
  <1>1. p \in Party /\ GoesByTheAnswer(p)
    BY DEF NotRunning, Party, PartySteps, GoesByTheAnswer, Never
  <1>2. party' = [party EXCEPT ![c] = p]
    BY DEF Begun
  <1> HIDE DEF p
  <1> QED
    BY <1>1, <1>2, PartyMoves

LEMMA LoopStartsKeeps ==
  ASSUME PartiesInv, AnswersInv, passphrase \in BOOLEAN, LoopStarts, UNCHANGED account,
         enabling' \in {enabling, NotEnabling}
  PROVE  PartiesInv' /\ AnswersInv'
  <1>1. PartiesInv'
    BY BeginsKeeps DEF LoopStarts, Processes
  <1>2. ASSUME NEW r \in 1 .. MaxRuns
        PROVE  /\ lateAsker'[r] \in Asker
               /\ lateAsker'[r].at = "answered" => lateAsker'[r].answer # Never
    <2>1. lateAsker[r] \in Asker /\ (lateAsker[r].at = "answered" => lateAsker[r].answer # Never)
      BY DEF AnswersInv
    <2>2. CASE lateAsker[r].at = "ticks"
      <3>1. lateAsker'[r] = [lateAsker[r] EXCEPT !.at = "none"]
        BY <2>2 DEF LoopStarts
      <3> QED
        BY <2>1, <3>1 DEF Asker
    <2>3. CASE lateAsker[r].at # "ticks"
      <3>1. lateAsker'[r] = lateAsker[r]
        BY <2>3 DEF LoopStarts
      <3> QED
        BY <2>1, <3>1
    <2> QED
      BY <2>2, <2>3
  <1>3. lateAsker' \in [1 .. MaxRuns -> Asker]
    BY <1>2 DEF LoopStarts
  <1>4. enabling' \in [at : {"none", "saved", "enabled", "kept"}, answer : Nat]
    BY DEF AnswersInv, NotEnabling, Never
  <1> QED
    BY <1>1, <1>2, <1>3, <1>4 DEF AnswersInv

LEMMA OnBoolean == \A n \in Nat : On(n) \in BOOLEAN
  BY DEF On

---------------------------------------------------------------------------
(* The steps. *)

\* A client's own step.  Without an answer it goes by the cache, which holds the
\* newest answer if that has not slipped, or by its passphrase.
LEMMA ClientStep ==
  ASSUME EncryptionInv, NEW c \in Processes,
         AnswerComes(c) \/ AnswerApplies(c) \/ AnswerKept(c) \/ NoAnswer(c)
  PROVE  EncryptionInv'
  <1>1. /\ party[c] \in Party /\ GoesByTheAnswer(party[c]) /\ PartiesInv
        /\ AnswersInv /\ CacheInv /\ passphrase \in BOOLEAN
    BY DEF EncryptionInv, PartiesInv
  <1>2. CASE AnswerComes(c)
    <2> DEFINE p == [party[c] EXCEPT !.at = "answered", !.answer = account]
    <2>1. p \in Party /\ GoesByTheAnswer(p)
      BY <1>1 DEF Party, PartySteps, GoesByTheAnswer, AnswersInv
    <2>2. party' = [party EXCEPT ![c] = p]
      BY <1>2 DEF AnswerComes
    <2> HIDE DEF p
    <2>3. PartiesInv'
      BY <1>1, <2>1, <2>2, PartyMoves
    <2> QED
      BY <1>1, <1>2, <2>3 DEF AnswerComes, EncryptionInv, AnswersInv, CacheInv
  <1>3. CASE AnswerApplies(c)
    <2> DEFINE p == [party[c] EXCEPT !.at = "applied", !.on = On(party[c].answer), !.knew = party[c].answer]
    <2>1. party[c].at = "answered" /\ party[c].answer \in Nat /\ On(party[c].answer) \in BOOLEAN
      BY <1>1, <1>3, OnBoolean DEF AnswerApplies, Party
    <2>2. p \in Party /\ GoesByTheAnswer(p)
      BY <1>1, <2>1 DEF Party, PartySteps, GoesByTheAnswer
    <2>3. party' = [party EXCEPT ![c] = p]
      BY <1>3 DEF AnswerApplies
    <2> HIDE DEF p
    <2>4. PartiesInv'
      BY <1>1, <2>2, <2>3, PartyMoves
    <2> QED
      BY <1>1, <1>3, <2>4 DEF AnswerApplies, EncryptionInv, AnswersInv, CacheInv
  <1>4. CASE AnswerKept(c)
    <2>1. PICK l \in {"kept", "works"} : party' = [party EXCEPT ![c].at = l]
      BY <1>4 DEF AnswerKept
    <2> DEFINE p == [party[c] EXCEPT !.at = l]
    <2>2. p \in Party /\ GoesByTheAnswer(p)
      BY <1>1, <1>4 DEF AnswerKept, Party, PartySteps, GoesByTheAnswer
    <2>3. party' = [party EXCEPT ![c] = p]
      BY <2>1
    <2> HIDE DEF p
    <2>4. PartiesInv'
      BY <1>1, <2>2, <2>3, PartyMoves
    <2>5. CacheInv'
      BY <1>1, <1>4, CacheWrites DEF AnswerKept, Party
    <2> QED
      BY <1>1, <1>4, <2>4, <2>5 DEF AnswerKept, EncryptionInv, AnswersInv
  <1>5. CASE NoAnswer(c)
    <2> DEFINE p == [party[c] EXCEPT !.at = "works", !.on = Assumed(c), !.knew = told, !.unsure = slipped]
    <2>1. Assumed(c) \in BOOLEAN
      BY <1>1, OnBoolean DEF Assumed, Party, CacheInv
    <2>2. p \in Party
      BY <1>1, <2>1 DEF Party, PartySteps, CacheInv
    <2>3. p.at = "works" /\ p.key = party[c].key /\ p.on = Assumed(c) /\ p.knew = told /\ p.unsure = slipped
      BY <1>1 DEF Party
    <2> HIDE DEF p
    <2>4. GoesByTheAnswer(p)
      <3>1. CASE ~slipped /\ remembered # Never
        BY <1>1, <2>3, <3>1 DEF GoesByTheAnswer, CacheInv, Assumed
      <3>2. CASE ~slipped /\ remembered = Never
        BY <1>1, <2>3, <3>2 DEF GoesByTheAnswer, CacheInv, Assumed
      <3>3. CASE slipped
        BY <2>3, <3>3 DEF GoesByTheAnswer
      <3> QED
        BY <3>1, <3>2, <3>3
    <2>5. party' = [party EXCEPT ![c] = p]
      BY <1>5 DEF NoAnswer, p
    <2>6. PartiesInv'
      BY <1>1, <2>2, <2>4, <2>5, PartyMoves
    <2>7. AnswersInv'
      <3>1. lateAsker' = lateAsker \/ lateAsker' = [lateAsker EXCEPT ![loopRun].at = "ticks"]
        BY <1>5 DEF NoAnswer
      <3>2. account' = account /\ enabling' = enabling
        BY <1>5 DEF NoAnswer
      <3>3. lateAsker \in [1 .. MaxRuns -> Asker]
        BY <1>1 DEF AnswersInv
      <3>4. CASE loopRun \in 1 .. MaxRuns /\ lateAsker' = [lateAsker EXCEPT ![loopRun].at = "ticks"]
        <4> DEFINE a == [lateAsker[loopRun] EXCEPT !.at = "ticks"]
        <4>1. a \in Asker /\ a.at = "ticks"
          BY <3>3, <3>4 DEF Asker
        <4>2. lateAsker' = [lateAsker EXCEPT ![loopRun] = a]
          BY <3>4
        <4> HIDE DEF a
        <4> QED
          BY <1>1, <3>2, <3>4, <4>1, <4>2, AskerMoves
      <3>5. CASE loopRun \notin 1 .. MaxRuns \/ lateAsker' = lateAsker
        <4>1. lateAsker' = lateAsker
          BY <3>1, <3>3, <3>5
        <4> QED
          BY <1>1, <3>2, <4>1 DEF AnswersInv
      <3> QED
        BY <3>1, <3>4, <3>5
    <2> QED
      BY <1>1, <1>5, <2>6, <2>7 DEF NoAnswer, EncryptionInv, CacheInv
  <1> QED
    BY <1>2, <1>3, <1>4, <1>5

\* The looks beside the answer, and a command's end.
LEMMA RestOfTheStart ==
  ASSUME EncryptionInv, LooksRead \/ LooksKept \/ CommandEnds \/ CommandStarts
  PROVE  EncryptionInv'
  <1>1. PartiesInv /\ AnswersInv /\ CacheInv /\ passphrase \in BOOLEAN
    BY DEF EncryptionInv
  <1>2. party["loop"] \in Party /\ GoesByTheAnswer(party["loop"])
    BY <1>1 DEF PartiesInv, Processes
  <1>3. CASE LooksRead
    <2> DEFINE p == [party["loop"] EXCEPT !.at = "looks", !.answer = AsRead(remembered)]
    <2>1. p \in Party /\ GoesByTheAnswer(p)
      BY <1>1, <1>2, <1>3, AsReadNat DEF LooksRead, Party, PartySteps, GoesByTheAnswer, CacheInv
    <2>2. party' = [party EXCEPT !["loop"] = p]
      BY <1>3 DEF LooksRead
    <2> HIDE DEF p
    <2>3. PartiesInv'
      BY <1>1, <2>1, <2>2, PartyMoves DEF Processes
    <2> QED
      BY <1>1, <1>3, <2>3 DEF LooksRead, EncryptionInv, AnswersInv, CacheInv
  <1>4. CASE LooksKept
    <2> DEFINE p == [party["loop"] EXCEPT !.at = "works"]
    <2>1. p \in Party /\ GoesByTheAnswer(p)
      BY <1>2, <1>4 DEF LooksKept, Party, PartySteps, GoesByTheAnswer
    <2>2. party' = [party EXCEPT !["loop"] = p]
      BY <1>4 DEF LooksKept
    <2> HIDE DEF p
    <2>3. PartiesInv'
      BY <1>1, <2>1, <2>2, PartyMoves DEF Processes
    <2>4. CacheInv'
      BY <1>1, <1>2, <1>4, CacheWrites DEF LooksKept, Party
    <2> QED
      BY <1>1, <1>4, <2>3, <2>4 DEF LooksKept, EncryptionInv, AnswersInv
  <1>5. CASE CommandEnds
    <2>1. NotRunning \in Party /\ GoesByTheAnswer(NotRunning)
      BY DEF NotRunning, Party, PartySteps, GoesByTheAnswer, Never
    <2>2. PartiesInv'
      BY <1>1, <1>5, <2>1, PartyMoves DEF CommandEnds, Processes
    <2> QED
      BY <1>1, <1>5, <2>2 DEF CommandEnds, EncryptionInv, AnswersInv, CacheInv
  <1>6. CASE CommandStarts
    <2>1. PartiesInv'
      BY <1>1, <1>6, BeginsKeeps DEF CommandStarts, Processes
    <2> QED
      BY <1>1, <1>6, <2>1 DEF CommandStarts, EncryptionInv, AnswersInv, CacheInv
  <1> QED
    BY <1>3, <1>4, <1>5, <1>6

\* The goroutine of a run: its answer reaches the client of its own run at any
\* moment, and the cache later.
LEMMA GoroutineStep ==
  ASSUME EncryptionInv, NEW r \in 1 .. MaxRuns,
         LateAnswer(r) \/ LateApplies(r) \/ LateKept(r) \/ LateLooksRead(r) \/ LateLooksKept(r)
  PROVE  EncryptionInv'
  <1>1. /\ lateAsker[r] \in Asker /\ (lateAsker[r].at = "answered" => lateAsker[r].answer # Never)
        /\ PartiesInv /\ AnswersInv /\ CacheInv /\ passphrase \in BOOLEAN
        /\ account \in Nat /\ account # Never
    BY DEF EncryptionInv, AnswersInv
  <1>2. CASE LateAnswer(r)
    <2>1. [at |-> "answered", answer |-> account] \in Asker
      BY <1>1 DEF Asker
    <2>2. AnswersInv'
      BY <1>1, <1>2, <2>1, AskerMoves DEF LateAnswer
    <2> QED
      BY <1>1, <1>2, <2>2 DEF LateAnswer, EncryptionInv, PartiesInv, CacheInv
  <1>3. CASE LateApplies(r)
    <2> DEFINE a == [lateAsker[r] EXCEPT !.at = "applied"]
    <2>1. a \in Asker /\ a.at = "applied" /\ lateAsker' = [lateAsker EXCEPT ![r] = a]
      BY <1>1, <1>3 DEF LateApplies, Asker
    <2> HIDE DEF a
    <2>2. AnswersInv'
      BY <1>1, <1>3, <2>1, AskerMoves DEF LateApplies
    <2>3. PartiesInv'
      <3>1. CASE party' = party
        BY <1>1, <3>1 DEF PartiesInv
      <3>2. CASE party' = [party EXCEPT !["loop"] =
                             [@ EXCEPT !.on = On(lateAsker[r].answer), !.knew = lateAsker[r].answer]]
        <4> DEFINE n == lateAsker[r].answer
                   p == [party["loop"] EXCEPT !.on = On(n), !.knew = n]
        <4>1. n \in Nat /\ n # Never /\ On(n) \in BOOLEAN
          BY <1>1, <1>3, OnBoolean DEF LateApplies, Asker
        <4>2. party["loop"] \in Party /\ GoesByTheAnswer(party["loop"])
          BY <1>1 DEF PartiesInv, Processes
        <4>3. party' = [party EXCEPT !["loop"] = p]
          BY <3>2
        <4> HIDE DEF n
        <4>4. p \in Party /\ GoesByTheAnswer(p)
          BY <4>1, <4>2 DEF Party, GoesByTheAnswer
        <4> HIDE DEF p
        <4> QED
          BY <1>1, <4>3, <4>4, PartyMoves DEF Processes
      <3> QED
        BY <1>3, <3>1, <3>2 DEF LateApplies
    <2> QED
      BY <1>1, <1>3, <2>2, <2>3 DEF LateApplies, EncryptionInv, CacheInv
  <1>4. CASE LateKept(r)
    <2> DEFINE a == [lateAsker[r] EXCEPT !.at = "kept"]
    <2>1. a \in Asker /\ a.at = "kept" /\ lateAsker' = [lateAsker EXCEPT ![r] = a]
      BY <1>1, <1>4 DEF LateKept, Asker
    <2> HIDE DEF a
    <2>2. AnswersInv'
      BY <1>1, <1>4, <2>1, AskerMoves DEF LateKept
    <2>3. CacheInv'
      BY <1>1, <1>4, CacheWrites DEF LateKept, Asker
    <2> QED
      BY <1>1, <1>4, <2>2, <2>3 DEF LateKept, EncryptionInv, PartiesInv
  <1>5. CASE LateLooksRead(r)
    <2>1. [at |-> "looks", answer |-> AsRead(remembered)] \in Asker
      BY <1>1, AsReadNat DEF Asker, CacheInv
    <2>2. AnswersInv'
      BY <1>1, <1>5, <2>1, AskerMoves DEF LateLooksRead
    <2> QED
      BY <1>1, <1>5, <2>2 DEF LateLooksRead, EncryptionInv, PartiesInv, CacheInv
  <1>6. CASE LateLooksKept(r)
    <2>1. [at |-> "none", answer |-> Never] \in Asker
      BY DEF Asker, Never
    <2>2. AnswersInv'
      BY <1>1, <1>6, <2>1, AskerMoves DEF LateLooksKept
    <2>3. CacheInv'
      BY <1>1, <1>6, CacheWrites DEF LateLooksKept, Asker
    <2> QED
      BY <1>1, <1>6, <2>2, <2>3 DEF LateLooksKept, EncryptionInv, PartiesInv
  <1> QED
    BY <1>2, <1>3, <1>4, <1>5, <1>6

\* The account's flag changes, on the pages or by enabling it here.
LEMMA AccountStep ==
  ASSUME EncryptionInv,
         \/ \E on \in BOOLEAN : PageSets(on)
         \/ EnableSaves \/ EnablePosts \/ EnableFails \/ EnableKept \/ EnableRestarts
  PROVE  EncryptionInv'
  <1>1. /\ PartiesInv /\ AnswersInv /\ CacheInv /\ passphrase \in BOOLEAN
        /\ account \in Nat \ {Never} /\ enabling.answer \in Nat
    BY DEF EncryptionInv, AnswersInv
  <1>2. ASSUME NEW on \in BOOLEAN, Set(on) PROVE account' \in Nat \ {Never}
    BY <1>1, <1>2 DEF Set, Never
  <1>3. CASE \E on \in BOOLEAN : PageSets(on)
    <2>1. account' \in Nat \ {Never}
      BY <1>2, <1>3 DEF PageSets
    <2> QED
      BY <1>1, <1>3, <2>1 DEF PageSets, EncryptionInv, PartiesInv, AnswersInv, CacheInv
  <1>4. CASE EnableSaves
    BY <1>1, <1>4 DEF EnableSaves, NotEnabling, Never, EncryptionInv, PartiesInv, AnswersInv, CacheInv
  <1>5. CASE EnablePosts
    <2>1. account' \in Nat \ {Never}
      BY <1>2, <1>5 DEF EnablePosts
    <2> QED
      BY <1>1, <1>5, <2>1 DEF EnablePosts, EncryptionInv, PartiesInv, AnswersInv, CacheInv
  <1>6. CASE EnableFails
    <2>1. account' \in Nat \ {Never}
      BY <1>1, <1>2, <1>6 DEF EnableFails
    <2> QED
      BY <1>1, <1>6, <2>1 DEF EnableFails, NotEnabling, Never, EncryptionInv, PartiesInv, AnswersInv, CacheInv
  <1>7. CASE EnableKept
    <2>1. CacheInv'
      BY <1>1, <1>7, CacheWrites DEF EnableKept
    <2>2. AnswersInv'
      BY <1>1, <1>7 DEF EnableKept, AnswersInv
    <2> QED
      BY <1>1, <1>7, <2>1, <2>2 DEF EnableKept, EncryptionInv, PartiesInv
  <1>8. CASE EnableRestarts
    <2>1. PartiesInv' /\ AnswersInv'
      BY <1>1, <1>8, LoopStartsKeeps DEF EnableRestarts
    <2> QED
      BY <1>1, <1>8, <2>1 DEF EnableRestarts, EncryptionInv, CacheInv
  <1> QED
    BY <1>3, <1>4, <1>5, <1>6, <1>7, <1>8

LEMMA EncryptionStep == EncryptionInv /\ [EncryptionNext]_encryptionVars => EncryptionInv'
  <1> SUFFICES ASSUME EncryptionInv, [EncryptionNext]_encryptionVars PROVE EncryptionInv'
    OBVIOUS
  <1>1. CASE LoopStarts /\ UNCHANGED <<account, passphrase, remembered, enabling, told, slipped, faults>>
    <2>1. PartiesInv' /\ AnswersInv'
      BY <1>1, LoopStartsKeeps DEF EncryptionInv
    <2> QED
      BY <1>1, <2>1 DEF EncryptionInv, CacheInv
  <1>2. CASE UNCHANGED encryptionVars
    BY <1>2 DEF encryptionVars, EncryptionInv, PartiesInv, AnswersInv, CacheInv
  <1> QED
    BY <1>1, <1>2, ClientStep, RestOfTheStart, GoroutineStep, AccountStep DEF EncryptionNext

\* It fails closed: no reachable state has a client that uploads plaintext with
\* a passphrase at hand, unless it was told to, or the cache had lost what it was
\* told (retryAccountEncryption, account_cache.go).
THEOREM PlaintextOnlyWhenToldHolds == EncryptionSpec => []PlaintextOnlyWhenTold
  <1>1. EncryptionInv => PlaintextOnlyWhenTold
    <2> SUFFICES ASSUME EncryptionInv, NEW c \in Processes,
                        party[c].at = "works" /\ party[c].key /\ ~Encodes(c) /\ ~party[c].unsure
                 PROVE  party[c].knew # Never /\ ~On(party[c].knew)
      BY DEF PlaintextOnlyWhenTold
    <2> QED
      BY DEF EncryptionInv, PartiesInv, GoesByTheAnswer, Encodes
  <1> QED
    BY <1>1, InitEncryptionInv, EncryptionStep, PTL DEF EncryptionSpec

---------------------------------------------------------------------------
(* The control of the loop: a resume catches up.                            *)

LoopRows == [at : {"none", "asked", "draining", "due", "begun", "hooked", "on", "stopping", "over"}, flag : BOOLEAN]
ControlTypes ==
  /\ loop \in [LoopIds -> LoopRows] /\ click \in [at : {"none", "file", "search"}, flag : BOOLEAN]
  /\ hook \in LoopIds \cup {0} /\ search \subseteq LoopIds
  /\ paused \in BOOLEAN /\ saved \in BOOLEAN /\ form.flag \in BOOLEAN

\* While no loop has overrun its successor, one runs at most, beside none that
\* stops or is about to be followed; the hook is that of the loop that watches,
\* and searches belong to loops that watch or stop.
Watches(n) == loop[n].at \in {"hooked", "on"}
LoopsInv ==
  \A n \in LoopIds :
    /\ Running(n) => \A m \in LoopIds : m # n => ~Running(m) /\ loop[m].at \notin {"draining", "stopping"}
    /\ loop[n].at = "draining" => \A m \in LoopIds : loop[m].at = "draining" => m = n
    /\ Watches(n) => hook = n
    /\ n \in search => Watches(n) \/ loop[n].at = "stopping"
    /\ hook = n => Watches(n) \/ loop[n].at = "stopping"

\* Who lifted the pause has yet to search, or a search is under way.
Catches ==
  ~paused /\ behind /\ slips = {} /\ (\E n \in LoopIds : loop[n].at = "on") =>
    search # {} \/ (click.at # "none" /\ ~click.flag) \/ snooze = "search"

ControlInv == ControlTypes /\ ("overrun" \in slips \/ (LoopsInv /\ Catches))

LEMMA IdsAreNotZero == 0 \notin LoopIds
  BY ControlBounds DEF LoopIds

LEMMA ControlBegins == ControlInit => ControlInv
  <1> SUFFICES ASSUME ControlInit PROVE ControlInv
    OBVIOUS
  <1>1. ControlTypes
    BY DEF ControlInit, ControlTypes, LoopRows, NoLoop, NoClick
  <1>2. \A n \in LoopIds : loop[n].at \in {"none", "asked"}
    BY DEF ControlInit, NoLoop
  <1>3. LoopsInv
    BY <1>2, IdsAreNotZero DEF ControlInit, LoopsInv, Running, Watches
  <1>4. Catches
    BY DEF ControlInit, Catches
  <1> QED
    BY <1>1, <1>3, <1>4 DEF ControlInv

\* The pause item, the snooze, and the form, which leave the loops as they are.
LEMMA MenuStepsKeep ==
  ASSUME ControlInv, PauseClicked \/ PauseSaved \/ PauseSearches \/ StartSnooze \/ SnoozeEnds \/ SettingsRead \/ GameEdits
  PROVE  ControlInv'
  <1>1. UNCHANGED <<loop, hook, slips>>
    BY DEF PauseClicked, PauseSaved, PauseSearches, StartSnooze, SnoozeEnds, SettingsRead, GameEdits
  <1>2. search' \in {search, search \cup ({hook} \ {0})}
    BY DEF PauseClicked, PauseSaved, PauseSearches, StartSnooze, SnoozeEnds, SettingsRead, GameEdits, Searches
  <1>3. ControlTypes'
    <2>1. click' \in [at : {"none", "file", "search"}, flag : BOOLEAN]
      <3>1. CASE PauseClicked
        BY <3>1 DEF PauseClicked, ControlInv, ControlTypes
      <3>2. CASE PauseSaved \/ PauseSearches
        <4>1. click' = [at |-> "none", flag |-> FALSE] \/ click' = [click EXCEPT !.at = "search"]
          BY <3>2 DEF PauseSaved, PauseSearches, NoClick
        <4>2. click \in [at : {"none", "file", "search"}, flag : BOOLEAN]
          BY DEF ControlInv, ControlTypes
        <4>3. CASE click' = [click EXCEPT !.at = "search"]
          BY <4>2, <4>3
        <4> QED
          <5>1. [at |-> "none", flag |-> FALSE] \in [at : {"none", "file", "search"}, flag : BOOLEAN]
            OBVIOUS
          <5> QED
            BY <4>1, <4>3, <5>1
      <3>3. CASE UNCHANGED click
        BY <3>3 DEF ControlInv, ControlTypes
      <3> QED
        BY <3>1, <3>2, <3>3 DEF StartSnooze, SnoozeEnds, SettingsRead, GameEdits
    <2>2. paused' \in BOOLEAN /\ saved' \in BOOLEAN /\ form'.flag \in BOOLEAN
      <3>1. paused' \in {TRUE, FALSE, paused, ~paused}
        BY DEF PauseClicked, PauseSaved, PauseSearches, StartSnooze, SnoozeEnds, SettingsRead, GameEdits
      <3>2. saved' \in {saved, click.flag}
        BY DEF PauseClicked, PauseSaved, PauseSearches, StartSnooze, SnoozeEnds, SettingsRead, GameEdits
      <3>3. form' = form \/ form' = [at |-> "write", flag |-> paused]
        BY DEF PauseClicked, PauseSaved, PauseSearches, StartSnooze, SnoozeEnds, SettingsRead, GameEdits
      <3> QED
        <4>1. paused \in BOOLEAN /\ saved \in BOOLEAN /\ form.flag \in BOOLEAN /\ click.flag \in BOOLEAN
          BY DEF ControlInv, ControlTypes
        <4>2. form'.flag \in BOOLEAN
          BY <3>3, <4>1
        <4> QED
          BY <3>1, <3>2, <4>1, <4>2
    <2> QED
      BY <1>1, <1>2, <2>1, <2>2 DEF ControlInv, ControlTypes
  <1>4. ASSUME LoopsInv PROVE LoopsInv'
    BY <1>1, <1>2, <1>4 DEF LoopsInv, Running, Watches
  <1>5. ASSUME LoopsInv, Catches PROVE Catches'
    <2> SUFFICES ASSUME ~paused', behind', slips = {}, NEW n \in LoopIds, loop[n].at = "on"
                 PROVE  search' # {} \/ (click'.at # "none" /\ ~click'.flag) \/ snooze' = "search"
      BY <1>1 DEF Catches
    <2>1. hook = n /\ n # 0
      BY <1>5, IdsAreNotZero DEF LoopsInv, Watches
    <2>2. ~paused /\ behind => search # {} \/ (click.at # "none" /\ ~click.flag) \/ snooze = "search"
      BY <1>5 DEF Catches
    <2>3. CASE PauseClicked
      BY <2>3 DEF PauseClicked
    <2>4. CASE PauseSaved
      BY <2>2, <2>4 DEF PauseSaved, ControlInv, ControlTypes
    <2>5. CASE PauseSearches
      BY <2>1, <2>5 DEF PauseSearches, Searches
    <2>6. CASE StartSnooze
      BY <2>6 DEF StartSnooze
    <2>7. CASE SnoozeEnds
      BY <2>1, <2>2, <2>7 DEF SnoozeEnds, Searches
    <2>8. CASE SettingsRead
      BY <2>2, <2>8 DEF SettingsRead
    <2>9. CASE GameEdits
      BY <2>2, <2>9 DEF GameEdits, Watching
    <2> QED
      BY <2>3, <2>4, <2>5, <2>6, <2>7, <2>8, <2>9
  <1> QED
    BY <1>1, <1>3, <1>4, <1>5 DEF ControlInv

\* Another loop is asked for.
LEMMA AskedKeeps ==
  ASSUME ControlInv, SettingsSaved \/ ReloadConfig
  PROVE  ControlInv'
  <1>1. UNCHANGED <<paused, snooze, click, hook, behind, search, slips>>
    BY DEF SettingsSaved, ReloadConfig
  <1>2. saved' \in BOOLEAN /\ form'.flag \in BOOLEAN
    <2>1. CASE SettingsSaved
      <3>1. (saved' = form.flag \/ saved' = saved) /\ form' = NoClick
        BY <2>1 DEF SettingsSaved
      <3> QED
        BY <3>1 DEF ControlInv, ControlTypes, NoClick
    <2>2. CASE ReloadConfig
      BY <2>2 DEF ReloadConfig, ControlInv, ControlTypes
    <2> QED
      BY <2>1, <2>2
  <1>3. CASE UNCHANGED loop
    BY <1>1, <1>2, <1>3 DEF ControlInv, ControlTypes, LoopsInv, Catches, Running, Watches
  <1>4. CASE \E flag \in BOOLEAN : LoopAsked(flag)
    <2>1. PICK flag \in BOOLEAN, n \in LoopIds : loop[n].at = "none" /\ loop' = [loop EXCEPT ![n] = [at |-> "asked", flag |-> flag]]
      BY <1>4 DEF LoopAsked
    <2>2. loop' \in [LoopIds -> LoopRows] /\ \A m \in LoopIds : loop'[m] = IF m = n THEN [at |-> "asked", flag |-> flag] ELSE loop[m]
      BY <2>1 DEF ControlInv, ControlTypes, LoopRows
    <2>3. \A m \in LoopIds : loop'[m].at = loop[m].at \/ (loop[m].at = "none" /\ loop'[m].at = "asked")
      BY <2>1, <2>2
    <2>4. LoopsInv => LoopsInv'
      BY <1>1, <2>3 DEF LoopsInv, Running, Watches
    <2>5. Catches => Catches'
      BY <1>1, <2>3 DEF Catches
    <2> QED
      BY <1>1, <1>2, <2>2, <2>4, <2>5 DEF ControlInv, ControlTypes
  <1> QED
    BY <1>3, <1>4 DEF SettingsSaved, ReloadConfig, ControlInv, ControlTypes

\* The step of a loop.
LEMMA LoopSteps ==
  ASSUME ControlInv, NEW n \in LoopIds, NEW at \in {"due", "begun", "hooked", "on", "over"}, LoopGoes(n, at)
  PROVE  /\ loop' \in [LoopIds -> LoopRows] /\ loop'[n].at = at
         /\ \A m \in LoopIds : m # n => loop'[m] = loop[m]
  BY DEF LoopGoes, ControlInv, ControlTypes, LoopRows

\* A loop takes the place of the one before it.
LEMMA ReplacingKeeps ==
  ASSUME ControlInv, NEW n \in LoopIds, MutexTaken(n) \/ NextLoop(n) \/ NextLoopAnyway(n) \/ LoopEnds(n)
  PROVE  ControlInv'
  <1>1. UNCHANGED <<paused, saved, snooze, click, form, behind>>
    BY DEF MutexTaken, NextLoop, NextLoopAnyway, LoopEnds
  <1>2. CASE MutexTaken(n)
    <2>1. loop' \in [LoopIds -> LoopRows] /\ \A m \in LoopIds :
             loop'[m].at = IF m = n THEN "draining" ELSE IF Running(m) THEN "stopping" ELSE loop[m].at
      BY <1>2 DEF MutexTaken, ControlInv, ControlTypes, LoopRows
    <2>2. loop[n].at = "asked" /\ (\A m \in LoopIds : loop[m].at # "draining") /\ UNCHANGED <<hook, search, slips>>
      BY <1>2 DEF MutexTaken
    <2>3. \A m \in LoopIds : ~Running(m)' /\ ~Watches(m)' /\ (loop'[m].at = "draining" <=> m = n)
                             /\ (Watches(m) \/ loop[m].at = "stopping" => loop'[m].at = "stopping")
      BY <2>1, <2>2 DEF Running, Watches
    <2>4. LoopsInv => LoopsInv'
      BY <2>2, <2>3 DEF LoopsInv
    <2>5. Catches'
      BY <2>3 DEF Catches, Watches
    <2> QED
      BY <1>1, <2>1, <2>2, <2>4, <2>5 DEF ControlInv, ControlTypes
  <1>3. CASE NextLoop(n)
    <2>1. LoopGoes(n, "due") /\ UNCHANGED <<hook, search, slips>> /\ loop[n].at = "draining" /\ \A m \in LoopIds : loop[m].at # "stopping"
      BY <1>3 DEF NextLoop
    <2>2. loop' \in [LoopIds -> LoopRows] /\ loop'[n].at = "due" /\ \A m \in LoopIds : m # n => loop'[m] = loop[m]
      BY <2>1, LoopSteps
    <2>3. LoopsInv => LoopsInv'
      BY <2>1, <2>2 DEF LoopsInv, Running, Watches
    <2>4. Catches => Catches'
      BY <1>1, <2>1, <2>2 DEF Catches
    <2> QED
      BY <1>1, <2>1, <2>2, <2>3, <2>4 DEF ControlInv, ControlTypes
  <1>4. CASE NextLoopAnyway(n)
    <2>1. LoopGoes(n, "due") /\ UNCHANGED <<hook, search>> /\ "overrun" \in slips'
      BY <1>4 DEF NextLoopAnyway
    <2> QED
      BY <1>1, <2>1, LoopSteps DEF ControlInv, ControlTypes
  <1>5. CASE LoopEnds(n)
    <2>1. LoopGoes(n, "over") /\ UNCHANGED slips /\ loop[n].at = "stopping" /\ hook' = 0 /\ search' = search \ {n}
      BY <1>5 DEF LoopEnds
    <2>2. loop' \in [LoopIds -> LoopRows] /\ loop'[n].at = "over" /\ \A m \in LoopIds : m # n => loop'[m] = loop[m]
      BY <2>1, LoopSteps
    <2>3. LoopsInv => LoopsInv'
      BY <2>1, <2>2, IdsAreNotZero DEF LoopsInv, Running, Watches
    <2>4. LoopsInv => Catches'
      BY <2>1, <2>2 DEF LoopsInv, Running, Catches
    <2> QED
      BY <1>1, <2>1, <2>2, <2>3, <2>4 DEF ControlInv, ControlTypes
  <1> QED
    BY <1>2, <1>3, <1>4, <1>5

\* The loop that runs.
LEMMA RunningKeeps ==
  ASSUME ControlInv, NEW n \in LoopIds, LoopBegins(n) \/ SetsHook(n) \/ MayReconcile(n)
  PROVE  ControlInv'
  <1>1. UNCHANGED <<saved, snooze, click, form, behind, slips>>
    BY DEF LoopBegins, SetsHook, MayReconcile
  <1>2. CASE LoopBegins(n)
    <2>1. LoopGoes(n, "begun") /\ UNCHANGED <<hook, search>> /\ loop[n].at = "due" /\ paused' = loop[n].flag
      BY <1>2 DEF LoopBegins
    <2>2. loop' \in [LoopIds -> LoopRows] /\ loop'[n].at = "begun" /\ \A m \in LoopIds : m # n => loop'[m] = loop[m]
      BY <2>1, LoopSteps
    <2>3. LoopsInv => LoopsInv' /\ Catches'
      BY <2>1, <2>2 DEF LoopsInv, Running, Watches, Catches
    <2>4. paused' \in BOOLEAN
      BY <2>1 DEF ControlInv, ControlTypes, LoopRows
    <2> QED
      BY <1>1, <2>1, <2>2, <2>3, <2>4 DEF ControlInv, ControlTypes
  <1>3. CASE SetsHook(n)
    <2>1. LoopGoes(n, "hooked") /\ UNCHANGED <<paused, search>> /\ loop[n].at = "begun" /\ hook' = n
      BY <1>3 DEF SetsHook
    <2>2. loop' \in [LoopIds -> LoopRows] /\ loop'[n].at = "hooked" /\ \A m \in LoopIds : m # n => loop'[m] = loop[m]
      BY <2>1, LoopSteps
    <2>3. LoopsInv => LoopsInv' /\ Catches'
      BY <2>1, <2>2 DEF LoopsInv, Running, Watches, Catches
    <2> QED
      BY <1>1, <2>1, <2>2, <2>3 DEF ControlInv, ControlTypes
  <1>4. CASE MayReconcile(n)
    <2>1. LoopGoes(n, "on") /\ UNCHANGED <<paused, hook>> /\ loop[n].at = "hooked" /\ search' = IF paused THEN search ELSE search \cup {n}
      BY <1>4 DEF MayReconcile
    <2>2. loop' \in [LoopIds -> LoopRows] /\ loop'[n].at = "on" /\ \A m \in LoopIds : m # n => loop'[m] = loop[m]
      BY <2>1, LoopSteps
    <2>3. LoopsInv => LoopsInv'
      BY <2>1, <2>2 DEF LoopsInv, Running, Watches
    <2>4. Catches'
      BY <2>1 DEF Catches
    <2> QED
      BY <1>1, <2>1, <2>2, <2>3, <2>4 DEF ControlInv, ControlTypes
  <1> QED
    BY <1>2, <1>3, <1>4

\* A search is that of the loop that runs: it uploads, unless sync is paused.
LEMMA SearchKeeps ==
  ASSUME ControlInv, NEW n \in LoopIds, SearchEnds(n) \/ SearchFails(n)
  PROVE  ControlInv'
  <1>1. UNCHANGED <<paused, saved, snooze, click, form, loop, hook>> /\ search' = search \ {n} /\ n \in search
    BY DEF SearchEnds, SearchFails
  <1>2. ("overrun" \in slips => "overrun" \in slips') /\ ControlTypes'
    BY <1>1 DEF SearchEnds, SearchFails, ControlInv, ControlTypes
  <1>3. LoopsInv => LoopsInv'
    BY <1>1 DEF LoopsInv, Running, Watches
  <1>4. ASSUME LoopsInv, Catches PROVE Catches'
    <2> SUFFICES ASSUME ~paused, behind', slips' = {}, NEW m \in LoopIds, loop[m].at = "on"
                 PROVE  FALSE
      BY <1>1 DEF Catches
    <2>1. SearchEnds(n)
      BY DEF SearchFails
    <2>2. n = m
      BY <1>1, <1>4 DEF LoopsInv, Running, Watches
    <2> QED
      BY <2>1, <2>2 DEF SearchEnds
  <1> QED
    BY <1>2, <1>3, <1>4 DEF ControlInv

LEMMA RestartKeeps ==
  ASSUME ControlInv, ClientRestarts
  PROVE  ControlInv'
  <1>1. PICK n \in LoopIds : loop' = [m \in LoopIds |-> IF m < n THEN [loop[m] EXCEPT !.at = "over"]
                     ELSE IF m = n THEN [at |-> "asked", flag |-> saved] ELSE NoLoop]
    BY DEF ClientRestarts
  <1>2. loop' \in [LoopIds -> LoopRows] /\ \A m \in LoopIds : loop'[m].at \in {"over", "asked", "none"}
    BY <1>1 DEF ControlInv, ControlTypes, LoopRows, NoLoop
  <1>3. LoopsInv' /\ Catches'
    BY <1>2, IdsAreNotZero DEF ClientRestarts, LoopsInv, Running, Watches, Catches
  <1>4. ControlTypes'
    BY <1>2 DEF ClientRestarts, ControlInv, ControlTypes, NoClick
  <1> QED
    BY <1>3, <1>4 DEF ControlInv

LEMMA ControlSteps == ControlInv /\ [ControlNext]_controlVars => ControlInv'
  <1>1. ControlInv /\ UNCHANGED controlVars => ControlInv'
    BY DEF controlVars, ControlInv, ControlTypes, LoopsInv, Catches, Running, Watches
  <1> QED
    BY <1>1, MenuStepsKeep, AskedKeeps, ReplacingKeeps, RunningKeeps, SearchKeeps, RestartKeeps DEF ControlNext

\* Edits made during a pause are looked for by whoever lifts it, at whatever
\* moment of a replacement of the loop (client/run_sync.go, watcher.go).
THEOREM ResumeCatchesUpHolds == ControlSpec => []ResumeCatchesUp
  <1>1. ControlInv => ResumeCatchesUp
    BY DEF ControlInv, Catches, ResumeCatchesUp
  <1> QED
    BY <1>1, ControlBegins, ControlSteps, PTL DEF ControlSpec

---------------------------------------------------------------------------
(* The tray: its menu tells of conflicts.                                   *)

Goroutines == [at : {"rest", "mark", "clear", "list", "refresh", "notify", "notify and list"},
               game : SUBSET Games, list : SUBSET Games, tells : BOOLEAN]
TrayTypes ==
  /\ updater \in [Updaters -> Goroutines] /\ row \in TrayRows
  /\ recorded \subseteq Games /\ stale \subseteq Games

\* The menu shows the state, or will.
Announces(u) == u.at \in {"notify", "notify and list"} \/ (u.at \in {"list", "refresh"} /\ u.tells)
ShownOrTold ==
  shown = TraySnapshot \/ unheard \/ token \/ debounce \/ \E w \in Updaters : Announces(updater[w])

\* Whoever records or settles a conflict sets the count after it, and a count
\* that is set with a list no longer true leaves something stale.
Counts(u) == u.at \in {"mark", "clear", "notify and list", "list", "refresh"}
CountRight == count = Cardinality(recorded) \/ stale # {} \/ \E w \in Updaters : Counts(updater[w])

\* A game's row tells of its record, unless its row is stale, a list is about to
\* set all of them, or somebody is about to set this one.
Refreshing(u) == u.at \in {"notify and list", "list", "refresh"}
Setting(u, g) == u.at \in {"mark", "clear"} /\ g \in u.game
RowTells(g) ==
  /\ row[g] = "conflict" => g \in recorded
  /\ g \in recorded => row[g] \in {"none", "conflict", "pending"}
RowsRight ==
  \A g \in Games : RowTells(g) \/ g \in stale \/ \E w \in Updaters : Refreshing(updater[w]) \/ Setting(updater[w], g)

StatusRight == (status \in {"setup", "idle"} => ~halted /\ ~failed) /\ (status = "paused" => halted)

TrayInv == TrayTypes /\ ShownOrTold /\ CountRight /\ RowsRight /\ StatusRight

LEMMA TrayBegins == TrayInit => TrayInv
  <1> SUFFICES ASSUME TrayInit PROVE TrayInv
    OBVIOUS
  <1>1. PICK known \in SUBSET Games :
          row = [g \in Games |-> IF g \notin known THEN "none" ELSE IF g \in recorded THEN "conflict" ELSE "ok"]
    BY DEF TrayInit
  <1>2. TrayTypes
    BY <1>1 DEF TrayInit, TrayTypes, TrayRows, Goroutines, Resting
  <1>3. RowsRight
    BY <1>1 DEF RowsRight, RowTells
  <1>4. ShownOrTold /\ CountRight /\ StatusRight
    BY DEF TrayInit, ShownOrTold, CountRight, StatusRight
  <1> QED
    BY <1>2, <1>3, <1>4 DEF TrayInv

\* A goroutine's step.
LEMMA UpdaterMoves ==
  ASSUME TrayInv, NEW w \in Updaters, NEW u \in Goroutines, updater' = [updater EXCEPT ![w] = u]
  PROVE  /\ updater' \in [Updaters -> Goroutines]
         /\ \A v \in Updaters : updater'[v] = IF v = w THEN u ELSE updater[v]
         /\ Announces(u) => \E v \in Updaters : Announces(updater'[v])
         /\ Announces(updater[w]) \/ ((\E v \in Updaters : Announces(updater[v])) => \E v \in Updaters : Announces(updater'[v]))
         /\ Counts(u) => \E v \in Updaters : Counts(updater'[v])
         /\ Counts(updater[w]) \/ ((\E v \in Updaters : Counts(updater[v])) => \E v \in Updaters : Counts(updater'[v]))
         /\ Refreshing(u) => \E v \in Updaters : Refreshing(updater'[v])
         /\ Refreshing(updater[w]) \/ ((\E v \in Updaters : Refreshing(updater[v])) => \E v \in Updaters : Refreshing(updater'[v]))
         /\ \A g \in Games : Setting(u, g) => \E v \in Updaters : Setting(updater'[v], g)
         /\ \A g \in Games :
              Setting(updater[w], g) \/ ((\E v \in Updaters : Setting(updater[v], g)) => \E v \in Updaters : Setting(updater'[v], g))
  <1>1. /\ updater' \in [Updaters -> Goroutines]
        /\ \A v \in Updaters : updater'[v] = IF v = w THEN u ELSE updater[v]
    BY DEF TrayInv, TrayTypes
  <1>2. updater'[w] = u /\ \A v \in Updaters : v # w => updater'[v] = updater[v]
    BY <1>1
  <1> QED
    BY <1>1, <1>2, Zenon

\* A goroutine that begins: it rested, and announces or counts from now on.
LEMMA BeginsRight ==
  ASSUME TrayInv, NEW w \in Updaters, NEW at \in {"mark", "clear", "list", "notify"}, NEW game \in SUBSET Games,
         Begins(w, at, game)
  PROVE  \E u \in Goroutines : /\ updater' = [updater EXCEPT ![w] = u] /\ updater[w].at = "rest"
                               /\ u.at = at /\ u.game = game /\ u.tells
  <1> DEFINE u == [Resting EXCEPT !.at = at, !.game = game, !.tells = TRUE]
  <1>1. u \in Goroutines /\ u.at = at /\ u.game = game /\ u.tells
    BY DEF Resting, Goroutines
  <1>2. updater' = [updater EXCEPT ![w] = u] /\ updater[w].at = "rest"
    BY DEF Begins
  <1> QED
    BY <1>1, <1>2

\* Conflicts that are recorded or settled.
LEMMA RecordsKeep ==
  ASSUME TrayInv, NEW w \in Updaters, NEW g \in Games, ConflictDetected(w, g) \/ ConflictResolved(w, g)
  PROVE  TrayInv'
  <1>1. PICK u \in Goroutines : /\ updater' = [updater EXCEPT ![w] = u] /\ updater[w].at = "rest"
                                /\ u.at \in {"mark", "clear"} /\ u.game = {g} /\ u.tells
    BY BeginsRight DEF ConflictDetected, ConflictResolved
  <1>2. /\ recorded' \in SUBSET Games /\ (\A h \in Games \ {g} : h \in recorded' <=> h \in recorded)
        /\ UNCHANGED <<row, count, status, halted, failed, token, debounce, shown, unheard, stale>>
    BY DEF ConflictDetected, ConflictResolved, TrayInv, TrayTypes
  <1>3. Counts(u) /\ Setting(u, g) /\ ~Announces(updater[w]) /\ ~Refreshing(updater[w]) /\ \A h \in Games : ~Setting(updater[w], h)
    BY <1>1 DEF Counts, Setting, Announces, Refreshing
  <1>4. TrayTypes' /\ CountRight' /\ StatusRight'
    BY <1>1, <1>2, <1>3, UpdaterMoves DEF TrayInv, TrayTypes, CountRight, StatusRight
  <1>5. ShownOrTold'
    BY <1>1, <1>2, <1>3, UpdaterMoves DEF TrayInv, ShownOrTold, TraySnapshot
  <1>6. RowsRight'
    <2> SUFFICES ASSUME NEW h \in Games
                 PROVE  RowTells(h)' \/ h \in stale' \/ \E v \in Updaters : Refreshing(updater'[v]) \/ Setting(updater'[v], h)
      BY DEF RowsRight
    <2>1. CASE h = g
      BY <2>1, <1>1, <1>3, UpdaterMoves
    <2>2. CASE h # g
      <3>1. RowTells(h)' <=> RowTells(h)
        BY <1>2, <2>2 DEF RowTells
      <3> QED
        BY <3>1, <1>1, <1>2, <1>3, UpdaterMoves DEF TrayInv, RowsRight
    <2> QED
      BY <2>1, <2>2
  <1> QED
    BY <1>4, <1>5, <1>6 DEF TrayInv

\* Rows that are set for one conflict.
LEMMA MarksKeep ==
  ASSUME TrayInv, NEW w \in Updaters, RecordGameConflict(w) \/ ClearGameConflict(w)
  PROVE  TrayInv'
  <1>1. updater[w] \in Goroutines /\ row \in TrayRows
    BY DEF TrayInv, TrayTypes
  <1>2. PICK u \in Goroutines : /\ updater' = [updater EXCEPT ![w] = u] /\ u.game = updater[w].game
                                /\ Announces(u) /\ (ClearGameConflict(w) => Refreshing(u) /\ Counts(u))
    <2>1. CASE RecordGameConflict(w)
      <3>1. updater' = [updater EXCEPT ![w] = [updater[w] EXCEPT !.at = "notify"]] /\ ~ClearGameConflict(w)
        BY <1>1, <2>1 DEF RecordGameConflict, ClearGameConflict, Steps, TrayInv, TrayTypes
      <3> QED
        BY <1>1, <3>1 DEF Goroutines, Announces
    <2>2. CASE ClearGameConflict(w)
      <3>1. updater' = [updater EXCEPT ![w] = [updater[w] EXCEPT !.at = "notify and list"]]
        BY <1>1, <2>2 DEF ClearGameConflict, Steps, TrayInv, TrayTypes
      <3> QED
        <4> DEFINE u == [updater[w] EXCEPT !.at = "notify and list"]
        <4>1. u \in Goroutines /\ u.game = updater[w].game /\ u.at = "notify and list"
          BY <1>1 DEF Goroutines
        <4> HIDE DEF u
        <4>2. Announces(u) /\ Refreshing(u) /\ Counts(u)
          BY <4>1 DEF Announces, Refreshing, Counts
        <4> QED
          BY <3>1, <4>1, <4>2 DEF u
    <2> QED
      BY <2>1, <2>2
  <1>3. /\ count' = Cardinality(recorded') /\ stale' \subseteq Games
        /\ UNCHANGED <<recorded, status, halted, failed, token, debounce, shown, unheard>>
    BY <1>1 DEF RecordGameConflict, ClearGameConflict, TrayInv, TrayTypes, Goroutines
  <1>4. row' \in TrayRows
    BY <1>1 DEF RecordGameConflict, ClearGameConflict, TrayRows
  <1>5. TrayTypes' /\ CountRight' /\ StatusRight' /\ ShownOrTold'
    BY <1>2, <1>3, <1>4, UpdaterMoves DEF TrayInv, TrayTypes, CountRight, StatusRight, ShownOrTold
  <1>6. RowsRight'
    <2> SUFFICES ASSUME NEW g \in Games
                 PROVE  RowTells(g)' \/ g \in stale' \/ \E v \in Updaters : Refreshing(updater'[v]) \/ Setting(updater'[v], g)
      BY DEF RowsRight
    <2>1. CASE ClearGameConflict(w)
      BY <2>1, <1>2, UpdaterMoves
    <2>2. CASE RecordGameConflict(w)
      <3>1. ~Refreshing(updater[w])
        BY <2>2 DEF RecordGameConflict, Refreshing
      <3>2. CASE g \in updater[w].game
        BY <1>3, <2>2, <3>2 DEF RecordGameConflict, RowTells
      <3>3. CASE g \notin updater[w].game
        <4>1. row'[g] = row[g] /\ (g \in stale' <=> g \in stale) /\ ~Setting(updater[w], g)
          BY <2>2, <3>3, <1>1 DEF RecordGameConflict, Setting
        <4>2. RowTells(g)' <=> RowTells(g)
          BY <4>1, <1>3 DEF RowTells
        <4> QED
          BY <4>1, <4>2, <1>2, <3>1, UpdaterMoves DEF TrayInv, RowsRight
      <3> QED
        BY <3>2, <3>3
    <2> QED
      BY <2>1, <2>2
  <1> QED
    BY <1>5, <1>6 DEF TrayInv

\* A save's row, and the list of records that its counts and rows are set with.
LEMMA ListsKeep ==
  ASSUME TrayInv, NEW w \in Updaters, (\E g \in Games : RecordSaveEvent(w, g)) \/ ListsConflicts(w)
  PROVE  TrayInv'
  <1>1. updater[w] \in Goroutines /\ row \in TrayRows
    BY DEF TrayInv, TrayTypes
  <1>2. PICK u \in Goroutines : /\ updater' = [updater EXCEPT ![w] = u]
                                /\ Counts(u) /\ Refreshing(u)
                                /\ Announces(u) \/ (~Announces(updater[w]) /\ UNCHANGED row)
    <2>1. CASE \E g \in Games : RecordSaveEvent(w, g)
      <3>1. PICK g \in Games : Begins(w, "list", {g})
        BY <2>1 DEF RecordSaveEvent
      <3> QED
        <4>1. PICK u \in Goroutines : updater' = [updater EXCEPT ![w] = u] /\ u.at = "list" /\ u.tells
          BY <3>1, BeginsRight
        <4> QED
          BY <4>1 DEF Counts, Refreshing, Announces
    <2>2. CASE ListsConflicts(w)
      <3> DEFINE u == [updater[w] EXCEPT !.at = "refresh", !.list = recorded]
      <3>1. updater' = [updater EXCEPT ![w] = u] /\ UNCHANGED row /\ updater[w].at = "list"
        BY <2>2, <1>1 DEF ListsConflicts, TrayInv, TrayTypes
      <3>2. u \in Goroutines /\ u.at = "refresh" /\ u.tells = updater[w].tells
        BY <1>1 DEF Goroutines, TrayInv, TrayTypes
      <3> QED
        BY <3>1, <3>2 DEF Counts, Refreshing, Announces
    <2> QED
      BY <2>1, <2>2
  <1>3. row' \in TrayRows /\ UNCHANGED <<recorded, count, status, halted, failed, token, debounce, shown, unheard, stale>>
    <2>1. CASE \E g \in Games : RecordSaveEvent(w, g)
      BY <2>1, <1>1 DEF RecordSaveEvent, TrayRows
    <2>2. CASE ListsConflicts(w)
      BY <2>2, <1>1 DEF ListsConflicts
    <2> QED
      BY <2>1, <2>2
  <1>4. ShownOrTold'
    BY <1>2, <1>3, UpdaterMoves DEF TrayInv, ShownOrTold, TraySnapshot
  <1> QED
    BY <1>2, <1>3, <1>4, UpdaterMoves DEF TrayInv, TrayTypes, CountRight, RowsRight, StatusRight

\* Counts and rows set with a list: what the list was wrong about is stale.
LEMMA RefreshKeeps ==
  ASSUME TrayInv, NEW w \in Updaters, RefreshesCounts(w)
  PROVE  TrayInv'
  <1> DEFINE list == updater[w].list
  <1>1. updater[w] \in Goroutines /\ row \in TrayRows /\ list \subseteq Games
    BY DEF TrayInv, TrayTypes, Goroutines
  <1>2. /\ updater[w].at = "refresh" /\ row' = RowsOf(list) /\ count' = Cardinality(list)
        /\ stale' = (list \ recorded) \cup (recorded \ list)
        /\ UNCHANGED <<recorded, status, halted, failed, token, debounce, shown>>
    BY DEF RefreshesCounts
  <1> HIDE DEF list
  <1>3. row' \in TrayRows
    BY <1>1, <1>2 DEF RowsOf, TrayRows
  <1>8. \A g \in Games : (row'[g] = "conflict" => g \in list) /\ (g \in list => row'[g] \in {"none", "conflict"})
    BY <1>1, <1>2 DEF RowsOf, TrayRows
  <1>4. CountRight' /\ RowsRight' /\ StatusRight'
    <2>1. stale' = {} => list = recorded
      BY <1>1, <1>2 DEF TrayInv, TrayTypes
    <2>2. CountRight' /\ StatusRight'
      BY <1>2, <2>1 DEF TrayInv, CountRight, StatusRight
    <2>3. \A g \in Games : g \in stale' \/ (g \in list <=> g \in recorded)
      BY <1>2
    <2>4. \A g \in Games : RowTells(g)' \/ g \in stale'
      <3> SUFFICES ASSUME NEW g \in Games, g \notin stale' PROVE RowTells(g)'
        OBVIOUS
      <3>1. (g \in list <=> g \in recorded) /\ recorded' = recorded
        BY <1>2, <2>3
      <3>2. (row'[g] = "conflict" => g \in list) /\ (g \in list => row'[g] \in {"none", "conflict"})
        BY <1>8
      <3> QED
        BY <3>1, <3>2 DEF RowTells
    <2> QED
      BY <2>2, <2>4 DEF RowsRight
  <1>5. PICK u \in Goroutines : /\ updater' = [updater EXCEPT ![w] = u]
                                /\ IF updater[w].tells THEN Announces(u) /\ UNCHANGED unheard
                                   ELSE unheard' = (unheard \/ row' # row \/ count' # count)
    <2>1. CASE updater[w].tells
      <3>1. updater' = [updater EXCEPT ![w] = [updater[w] EXCEPT !.at = "notify"]] /\ UNCHANGED unheard
        BY <2>1 DEF RefreshesCounts, Steps, TrayInv, TrayTypes
      <3> QED
        <4> DEFINE u == [updater[w] EXCEPT !.at = "notify"]
        <4>1. u \in Goroutines /\ u.at = "notify"
          BY <1>1 DEF Goroutines
        <4> HIDE DEF u
        <4> QED
          BY <2>1, <3>1, <4>1 DEF u, Announces
    <2>2. CASE ~updater[w].tells
      <3>1. updater' = [updater EXCEPT ![w] = Resting] /\ unheard' = (unheard \/ row' # row \/ count' # count)
        BY <2>2 DEF RefreshesCounts
      <3> QED
        BY <2>2, <3>1 DEF Goroutines, Resting
    <2> QED
      BY <2>1, <2>2
  <1>6. TrayTypes'
    BY <1>1, <1>2, <1>3, <1>5, UpdaterMoves DEF TrayInv, TrayTypes
  <1>7. ShownOrTold'
    <2>1. CASE updater[w].tells
      BY <2>1, <1>5, UpdaterMoves DEF ShownOrTold
    <2>2. CASE ~updater[w].tells
      <3>1. ~Announces(updater[w])
        BY <1>2, <2>2 DEF Announces
      <3>2. unheard' \/ (~unheard /\ UNCHANGED <<row, count>>)
        BY <1>5, <2>2
      <3> QED
        BY <1>2, <1>5, <3>1, <3>2, UpdaterMoves DEF TrayInv, ShownOrTold, TraySnapshot
    <2> QED
      BY <2>1, <2>2
  <1> QED
    BY <1>4, <1>6, <1>7 DEF TrayInv

\* The other updates, which announce what they change.
LEMMA StatusKeeps ==
  ASSUME TrayInv, NEW w \in Updaters,
         SyncStarts(w) \/ SyncEnds(w) \/ TrayPaused(w) \/ SetupIsOver(w) \/ (\E g \in Games : RecordPendingUpload(w, g))
  PROVE  TrayInv'
  <1>1. \E game \in SUBSET Games : Begins(w, "notify", game)
    <2>1. CASE \E g \in Games : RecordPendingUpload(w, g)
      <3>1. PICK g \in Games : Begins(w, "notify", {g})
        BY <2>1 DEF RecordPendingUpload
      <3> QED
        BY <3>1
    <2>2. CASE SyncStarts(w) \/ SyncEnds(w) \/ TrayPaused(w) \/ SetupIsOver(w)
      <3>1. Begins(w, "notify", {})
        BY <2>2 DEF SyncStarts, SyncEnds, TrayPaused, SetupIsOver
      <3> QED
        BY <3>1
    <2> QED
      BY <2>1, <2>2
  <1>2. PICK u \in Goroutines : updater' = [updater EXCEPT ![w] = u] /\ updater[w].at = "rest" /\ u.at = "notify"
    BY <1>1, BeginsRight
  <1>3. Announces(u) /\ ~Counts(updater[w]) /\ ~Refreshing(updater[w]) /\ \A g \in Games : ~Setting(updater[w], g)
    BY <1>2 DEF Announces, Counts, Refreshing, Setting
  <1>4. UNCHANGED <<recorded, stale>>
    BY DEF SyncStarts, SyncEnds, TrayPaused, SetupIsOver, RecordPendingUpload
  <1>5. row' \in TrayRows /\ \A g \in Games : row'[g] \in {row[g], "pending"}
    <2>1. CASE \E g \in Games : RecordPendingUpload(w, g)
      BY <2>1 DEF RecordPendingUpload, TrayInv, TrayTypes, TrayRows
    <2>2. CASE UNCHANGED row
      BY <2>2 DEF TrayInv, TrayTypes
    <2> QED
      BY <2>1, <2>2 DEF SyncStarts, SyncEnds, TrayPaused, SetupIsOver
  <1>6. TrayTypes' /\ ShownOrTold'
    BY <1>2, <1>3, <1>4, <1>5, UpdaterMoves DEF TrayInv, TrayTypes, ShownOrTold
  <1>7. count' \in {count, Cardinality(recorded)}
    BY DEF SyncStarts, SyncEnds, TrayPaused, SetupIsOver, RecordPendingUpload
  <1>8. CountRight'
    BY <1>2, <1>3, <1>4, <1>7, UpdaterMoves DEF TrayInv, CountRight
  <1>9. RowsRight'
    <2> SUFFICES ASSUME NEW g \in Games
                 PROVE  RowTells(g)' \/ g \in stale' \/ \E v \in Updaters : Refreshing(updater'[v]) \/ Setting(updater'[v], g)
      BY DEF RowsRight
    <2>1. RowTells(g) => RowTells(g)'
      BY <1>4, <1>5 DEF RowTells
    <2> QED
      BY <1>2, <1>3, <1>4, <2>1, UpdaterMoves DEF TrayInv, RowsRight
  <1>10. StatusRight'
    <2>1. CASE SyncStarts(w) \/ SetupIsOver(w) \/ (\E g \in Games : RecordPendingUpload(w, g))
      <3>1. UNCHANGED <<halted, failed>> /\ (status' \in {status, "syncing"} \/ (status = "setup" /\ status' = "idle"))
        BY <2>1 DEF SyncStarts, SetupIsOver, RecordPendingUpload
      <3> QED
        BY <3>1 DEF TrayInv, StatusRight
    <2>2. CASE SyncEnds(w)
      BY <2>2 DEF StatusRight, SyncEnds
    <2>3. CASE TrayPaused(w)
      BY <2>3 DEF TrayInv, StatusRight, TrayPaused
    <2> QED
      BY <2>1, <2>2, <2>3
  <1> QED
    BY <1>6, <1>8, <1>9, <1>10 DEF TrayInv

\* Announcing.
LEMMA NotifiesKeeps ==
  ASSUME TrayInv, NEW w \in Updaters, Notifies(w)
  PROVE  TrayInv'
  <1>1. updater[w] \in Goroutines
    BY DEF TrayInv, TrayTypes
  <1>2. PICK u \in Goroutines : /\ updater' = [updater EXCEPT ![w] = u]
                                /\ Counts(updater[w]) => Counts(u)
                                /\ Refreshing(updater[w]) => Refreshing(u)
                                /\ \A g \in Games : ~Setting(updater[w], g)
    <2>1. CASE updater[w].at = "notify"
      <3>1. updater' = [updater EXCEPT ![w] = Resting] /\ Resting \in Goroutines
        BY <2>1 DEF Notifies, Resting, Goroutines
      <3> QED
        BY <2>1, <3>1 DEF Counts, Refreshing, Setting
    <2>2. CASE updater[w].at = "notify and list"
      <3>1. updater' = [updater EXCEPT ![w] = [updater[w] EXCEPT !.at = "list", !.tells = FALSE]]
        BY <2>2 DEF Notifies, TrayInv, TrayTypes
      <3> QED
        BY <1>1, <2>2, <3>1 DEF Goroutines, Counts, Refreshing, Setting
    <2> QED
      BY <2>1, <2>2 DEF Notifies
  <1>3. UNCHANGED <<recorded, row, count, status, halted, failed, stale>> /\ (token' \/ unheard')
    BY DEF Notifies
  <1>4. ShownOrTold'
    BY <1>3 DEF ShownOrTold
  <1>5. RowsRight' /\ CountRight'
    BY <1>2, <1>3, UpdaterMoves DEF TrayInv, RowsRight, RowTells, CountRight
  <1> QED
    BY <1>2, <1>3, <1>4, <1>5, UpdaterMoves DEF TrayInv, TrayTypes, StatusRight

\* The menu.
LEMMA MenuKeeps ==
  ASSUME TrayInv, Subscribes \/ TokenTaken \/ MenuRedrawn \/ MenuTicks \/ UNCHANGED trayVars
  PROVE  TrayInv'
  <1>1. UNCHANGED <<recorded, row, count, status, halted, failed, updater, stale>>
    BY DEF Subscribes, TokenTaken, MenuRedrawn, MenuTicks, trayVars
  <1>2. ShownOrTold'
    BY <1>1 DEF TrayInv, ShownOrTold, TraySnapshot, Subscribes, TokenTaken, MenuRedrawn, MenuTicks, trayVars
  <1> QED
    BY <1>1, <1>2 DEF TrayInv, TrayTypes, CountRight, RowsRight, RowTells, StatusRight

LEMMA TraySteps == TrayInv /\ [TrayNext]_trayVars => TrayInv'
  BY RecordsKeep, MarksKeep, ListsKeep, RefreshKeeps, StatusKeeps, NotifiesKeeps, MenuKeeps DEF TrayNext

\* The menu tells of the recorded conflicts and of no other, however the updates
\* of the goroutines interleave, apart from what is named stale or unannounced
\* (client/tray_state.go).
THEOREM MenuTellsOfConflictsHolds == TraySpec => []MenuTellsOfConflicts
  <1>1. TrayInv => MenuTellsOfConflicts
    <2> SUFFICES ASSUME TrayInv PROVE MenuTellsOfConflicts
      OBVIOUS
    <2>1. Announcing = {w \in Updaters : Announces(updater[w])} /\ Counting = {w \in Updaters : Counts(updater[w])}
      BY DEF Announcing, Counting, Announces, Counts
    <2>2. shown = TraySnapshot \/ unheard \/ token \/ debounce \/ Announcing # {}
      BY <2>1 DEF TrayInv, ShownOrTold
    <2>3. ASSUME stale = {}, Counting = {}
          PROVE  count = Cardinality(recorded) /\ \A g \in Games : RowTells(g)
      BY <2>1, <2>3 DEF TrayInv, CountRight, RowsRight, Counts, Refreshing, Setting
    <2> QED
      BY <2>2, <2>3 DEF TrayInv, TrayTypes, StatusRight, RowTells, MenuTellsOfConflicts
  <1> QED
    BY <1>1, TrayBegins, TraySteps, PTL DEF TraySpec

---------------------------------------------------------------------------
(* The updater: an update leaves a client.                                  *)

Installs == [pc : {"idle", "claim", "download", "digest", "apply"}, v : Nat]
UpdateTypes ==
  /\ asker \in [Askers -> Installs] /\ part \in [v : Nat, sound : BOOLEAN] /\ pending \in Nat
  /\ latest \in Nat /\ busy \in BOOLEAN

\* Whoever installs has the slot, alone, and knows a version to install.
InstallsAlone ==
  \A a \in Askers :
    /\ asker[a].pc # "idle" => asker[a].v # 0
    /\ asker[a].pc \in {"download", "digest", "apply"} =>
         busy /\ \A b \in Askers : asker[b].pc \in {"download", "digest", "apply"} => a = b

\* There is a program, or the helper or whoever starts it has one.
HasProgram ==
  /\ exe = NoProgram => helper = "swap" \/ hollow
  /\ helper = "swap" => exe # NoProgram \/ exeOld # NoProgram \/ hollow
  /\ helper = "copy" => part # NoProgram
  /\ platform # "windows" /\ helper \in {"move", "swap"} => exeNew # NoProgram

\* A process that ends leaves another behind.
HasSuccessor ==
  /\ relaunch => helper = "none"
  /\ helper \in {"verify", "copy", "sign", "clean"} => platform # "windows"
  /\ client # "off" \/ helper # "none" \/ relaunch \/ gone \/ exe = NoProgram
  /\ client = "quitting" =>
       gone \/ relaunch \/ helper = "waiting" \/ (platform = "windows" /\ helper # "none")
       \/ (helper = "none" /\ exe = NoProgram)

UpdaterInv == UpdateTypes /\ InstallsAlone /\ HasProgram /\ HasSuccessor

LEMMA UpdaterBegins == UpdaterInit => UpdaterInv
  <1> SUFFICES ASSUME UpdaterInit PROVE UpdaterInv
    OBVIOUS
  <1>1. UpdateTypes /\ InstallsAlone
    BY DEF UpdaterInit, UpdateTypes, InstallsAlone, NoInstall, NoProgram, Installs
  <1>2. HasProgram /\ HasSuccessor
    BY DEF UpdaterInit, HasProgram, HasSuccessor, NoProgram
  <1> QED
    BY <1>1, <1>2 DEF UpdaterInv

\* What the two who ask do with the slot.
LEMMA AskersKeep ==
  ASSUME UpdaterInv, NEW a \in Askers, NEW n \in Installs, asker' = [asker EXCEPT ![a] = n],
         n.pc # "idle" => n.v # 0,
         n.pc \in {"download", "digest", "apply"} =>
           busy' /\ (~busy \/ asker[a].pc \in {"download", "digest", "apply"}),
         busy' = FALSE => ~busy \/ asker[a].pc \in {"download", "digest", "apply"},
         busy' \in BOOLEAN
  PROVE  asker' \in [Askers -> Installs] /\ InstallsAlone'
  <1>1. asker' \in [Askers -> Installs] /\ \A b \in Askers : asker'[b] = IF b = a THEN n ELSE asker[b]
    BY DEF UpdaterInv, UpdateTypes
  <1> QED
    BY <1>1 DEF UpdaterInv, UpdateTypes, InstallsAlone

LEMMA ClientAsks ==
  ASSUME UpdaterInv, NEW a \in Askers,
         \/ AskInstall(a) \/ BeginUpdateOp(a) \/ DownloadUpdate(a) \/ InstallFails(a) \/ ApplyUpdate(a)
         \/ \E written \in BOOLEAN : RecordDigest(a, written)
  PROVE  UpdaterInv'
  <1>1. asker[a] \in Installs /\ NoInstall \in Installs /\ NoInstall.pc = "idle"
    BY DEF UpdaterInv, UpdateTypes, NoInstall, Installs
  <1>2. PICK n \in Installs :
          /\ asker' = [asker EXCEPT ![a] = n]
          /\ n.pc # "idle" => n.v # 0
          /\ n.pc \in {"download", "digest", "apply"} =>
               busy' /\ (~busy \/ asker[a].pc \in {"download", "digest", "apply"})
    <2> DEFINE at(pc) == [asker[a] EXCEPT !.pc = pc]
    <2>1. \A pc \in {"download", "digest", "apply"} : at(pc) \in Installs /\ at(pc).pc = pc /\ at(pc).v = asker[a].v
      BY <1>1 DEF Installs
    <2>2. asker[a].pc # "idle" => asker[a].v # 0
      BY DEF UpdaterInv, InstallsAlone
    <2>3. asker[a].pc \in {"download", "digest", "apply"} => busy
      BY DEF UpdaterInv, InstallsAlone
    <2>4. CASE AskInstall(a)
      <3>1. [pc |-> "claim", v |-> pending] \in Installs /\ pending # 0 /\ asker' = [asker EXCEPT ![a] = [pc |-> "claim", v |-> pending]]
        BY <2>4 DEF AskInstall, UpdaterInv, UpdateTypes, Installs
      <3> QED
        BY <3>1
    <2>5. CASE BeginUpdateOp(a)
      <3>1. busy' = TRUE /\ asker[a].pc = "claim" /\ asker' = [asker EXCEPT ![a] = IF busy THEN NoInstall ELSE at("download")]
        BY <1>1, <2>5 DEF BeginUpdateOp, UpdaterInv, UpdateTypes
      <3>2. CASE busy
        BY <1>1, <3>1, <3>2
      <3>3. CASE ~busy
        <4> HIDE DEF at
        <4> QED
          BY <2>1, <2>2, <3>1, <3>3
      <3> QED
        BY <3>2, <3>3
    <2>6. CASE DownloadUpdate(a)
      <3>1. asker[a].pc = "download" /\ busy' = busy /\ asker' = [asker EXCEPT ![a] = at("digest")]
        BY <2>6 DEF DownloadUpdate, UpdaterInv, UpdateTypes
      <3> HIDE DEF at
      <3> QED
        BY <2>1, <2>2, <2>3, <3>1
    <2>7. CASE \E written \in BOOLEAN : RecordDigest(a, written)
      <3>1. asker[a].pc = "digest" /\ busy' = busy /\ asker' = [asker EXCEPT ![a] = at("apply")]
        BY <2>7 DEF RecordDigest, UpdaterInv, UpdateTypes
      <3> HIDE DEF at
      <3> QED
        BY <2>1, <2>2, <2>3, <3>1
    <2>8. CASE InstallFails(a) \/ ApplyUpdate(a)
      <3>1. asker' = [asker EXCEPT ![a] = NoInstall]
        BY <2>8 DEF InstallFails, ApplyUpdate
      <3> QED
        BY <1>1, <3>1
    <2> QED
      BY <2>4, <2>5, <2>6, <2>7, <2>8
  <1>3. /\ busy' \in BOOLEAN
        /\ busy' = FALSE => ~busy \/ asker[a].pc \in {"download", "digest", "apply"}
    BY DEF AskInstall, BeginUpdateOp, DownloadUpdate, InstallFails, ApplyUpdate, RecordDigest, UpdaterInv, UpdateTypes
  <1>4. asker' \in [Askers -> Installs] /\ InstallsAlone'
    BY <1>2, <1>3, AskersKeep
  <1>5. part' \in [v : Nat, sound : BOOLEAN] /\ (part # NoProgram => part' # NoProgram)
    <2>1. CASE DownloadUpdate(a)
      <3>1. asker[a].v # 0 /\ asker[a].v \in Nat /\ part' = [v |-> asker[a].v, sound |-> TRUE]
        BY <1>1, <2>1 DEF DownloadUpdate, UpdaterInv, InstallsAlone, Installs
      <3> QED
        BY <3>1 DEF NoProgram
    <2>2. CASE ~DownloadUpdate(a)
      BY <2>2 DEF AskInstall, BeginUpdateOp, InstallFails, ApplyUpdate, RecordDigest, UpdaterInv, UpdateTypes, programVars
    <2> QED
      BY <2>1, <2>2
  <1>6. pending' \in Nat /\ latest' \in Nat /\ UNCHANGED <<platform, exe, exeOld, exeNew, hollow, relaunch, gone>>
    BY DEF AskInstall, BeginUpdateOp, DownloadUpdate, InstallFails, ApplyUpdate, RecordDigest, UpdaterInv, UpdateTypes, programVars, processVars
  <1>7. UNCHANGED <<client, helper>> \/ (helper = "none" /\ ~relaunch /\ helper' = "waiting" /\ client' = "quitting")
    BY DEF AskInstall, BeginUpdateOp, DownloadUpdate, InstallFails, ApplyUpdate, RecordDigest, processVars
  <1>8. HasProgram'
    BY <1>5, <1>6, <1>7 DEF UpdaterInv, HasProgram
  <1>9. HasSuccessor'
    BY <1>6, <1>7 DEF UpdaterInv, HasSuccessor
  <1> QED
    BY <1>3, <1>4, <1>5, <1>6, <1>8, <1>9 DEF UpdaterInv, UpdateTypes

\* The client and the machine.
LEMMA ClientKeeps ==
  ASSUME UpdaterInv,
         \/ Released \/ ClientExits \/ UserQuits \/ UserStarts \/ MachineStops \/ StagedSpoils
         \/ Relaunched \/ RelaunchGivesUp \/ (\E offers \in BOOLEAN : CheckForUpdate(offers))
  PROVE  UpdaterInv'
  <1> USE DEF UpdaterInv
  <1>1. UpdateTypes' /\ InstallsAlone'
    <2>1. CASE UNCHANGED <<asker, busy>>
      <3>1. part' \in [v : Nat, sound : BOOLEAN]
        <4>1. CASE StagedSpoils
          BY <4>1 DEF StagedSpoils, UpdateTypes
        <4>2. CASE ~StagedSpoils
          BY <4>2 DEF Released, ClientExits, UserQuits, UserStarts, MachineStops, Relaunched, RelaunchGivesUp,
             CheckForUpdate, UpdateTypes, programVars
        <4> QED
          BY <4>1, <4>2
      <3>2. pending' \in Nat /\ latest' \in Nat
        BY DEF Released, ClientExits, UserQuits, UserStarts, MachineStops, StagedSpoils, Relaunched, RelaunchGivesUp,
           CheckForUpdate, Offered, UpdateTypes, askVars
      <3> QED
        BY <2>1, <3>1, <3>2 DEF UpdateTypes, InstallsAlone
    <2>2. CASE asker' = [a \in Askers |-> NoInstall] /\ busy' = FALSE /\ pending' = 0 /\ UNCHANGED <<latest, part>>
      BY <2>2 DEF UpdateTypes, InstallsAlone, NoInstall, Installs
    <2> QED
      BY <2>1, <2>2 DEF Released, ClientExits, UserQuits, UserStarts, MachineStops, StagedSpoils, Relaunched, RelaunchGivesUp,
           CheckForUpdate, askVars, programVars
  <1>2. HasProgram'
    <2>1. CASE UserStarts \/ Relaunched
      BY <2>1 DEF UserStarts, Relaunched, Takes, UpdateTypes, HasProgram, HasSuccessor, NoProgram
    <2>2. CASE ~(UserStarts \/ Relaunched)
      BY <2>2 DEF Released, ClientExits, UserQuits, MachineStops, StagedSpoils, RelaunchGivesUp,
             CheckForUpdate, UpdateTypes, HasProgram, HasSuccessor, NoProgram, programVars, processVars
    <2> QED
      BY <2>1, <2>2
  <1>3. HasSuccessor'
    <2>1. CASE Released \/ StagedSpoils \/ \E offers \in BOOLEAN : CheckForUpdate(offers)
      BY <2>1 DEF Released, StagedSpoils, CheckForUpdate, HasSuccessor, programVars, processVars
    <2>2. CASE ClientExits \/ UserQuits \/ MachineStops \/ RelaunchGivesUp
      BY <2>2 DEF ClientExits, UserQuits, MachineStops, RelaunchGivesUp, HasSuccessor, programVars, processVars
    <2>3. CASE UserStarts \/ Relaunched
      BY <2>3 DEF UserStarts, Relaunched, Takes, HasSuccessor
    <2> QED
      BY <2>1, <2>2, <2>3
  <1> QED
    BY <1>1, <1>2, <1>3

\* The helper.
LEMMA HelperKeeps ==
  ASSUME UpdaterInv,
         \/ HelperWaits \/ HelperWaitedEnough \/ HelperVerifies \/ HelperCopies \/ CopyFails \/ HelperMoves
         \/ MoveFails \/ HelperSwaps \/ SwapFails \/ RollBackFails \/ HelperSigns \/ HelperCleans \/ HelperLaunches \/ LaunchFails
  PROVE  UpdaterInv'
  <1> USE DEF UpdaterInv
  <1>1. UpdateTypes' /\ InstallsAlone'
    <2>1. UNCHANGED <<latest, askVars>>
      BY DEF HelperWaits, HelperWaitedEnough, HelperVerifies, HelperCopies, CopyFails, HelperMoves,
         MoveFails, HelperSwaps, SwapFails, RollBackFails, HelperSigns, HelperCleans, HelperLaunches, LaunchFails
    <2>2. part' \in {part, NoProgram}
      BY DEF HelperWaits, HelperWaitedEnough, HelperVerifies, HelperCopies, CopyFails, HelperMoves,
         MoveFails, HelperSwaps, SwapFails, RollBackFails, HelperSigns, HelperCleans, HelperLaunches, LaunchFails, programVars
    <2>3. part' \in [v : Nat, sound : BOOLEAN]
      <3>1. NoProgram \in [v : Nat, sound : BOOLEAN]
        BY DEF NoProgram
      <3> QED
        BY <2>2, <3>1 DEF UpdateTypes
    <2> QED
      BY <2>1, <2>3 DEF UpdateTypes, InstallsAlone, askVars
  <1>2. HasProgram'
    <2>1. CASE HelperWaits \/ HelperWaitedEnough \/ HelperVerifies \/ HelperCopies \/ CopyFails
      BY <2>1 DEF HelperWaits, HelperWaitedEnough, HelperVerifies, HelperCopies, CopyFails,
         HelperGoes, GoesOnAsClient, Verified, HasProgram, programVars
    <2>2. CASE HelperMoves \/ MoveFails \/ HelperSwaps
      BY <2>2 DEF HelperMoves, MoveFails, HelperSwaps, HelperGoes, HasProgram, programVars
    <2>3. CASE SwapFails \/ RollBackFails
      BY <2>3 DEF SwapFails, RollBackFails, HelperGoes, GoesOnAsClient, HasProgram
    <2>4. CASE HelperSigns \/ HelperCleans \/ HelperLaunches \/ LaunchFails
      BY <2>4 DEF HelperSigns, HelperCleans, HelperLaunches, LaunchFails, HelperGoes, GoesOnAsClient, HasProgram, programVars
    <2> QED
      BY <2>1, <2>2, <2>3, <2>4
  <1>3. HasSuccessor'
    <2>1. CASE HelperWaits \/ HelperWaitedEnough \/ HelperVerifies
      BY <2>1 DEF HelperWaits, HelperWaitedEnough, HelperVerifies, programVars, HelperGoes, GoesOnAsClient, SameClient, HasSuccessor
    <2>2. CASE HelperCopies \/ CopyFails \/ HelperMoves \/ MoveFails
      BY <2>2 DEF HelperCopies, CopyFails, HelperMoves, MoveFails, programVars, HelperGoes, GoesOnAsClient, SameClient, HasSuccessor, HasProgram
    <2>3. CASE HelperSwaps \/ SwapFails \/ RollBackFails
      BY <2>3 DEF HelperSwaps, SwapFails, RollBackFails, HelperGoes, GoesOnAsClient, SameClient, HasSuccessor, HasProgram
    <2>4. CASE HelperSigns \/ HelperCleans \/ HelperLaunches \/ LaunchFails
      <3>1. CASE HelperSigns \/ HelperCleans
        BY <3>1 DEF HelperSigns, HelperCleans, programVars, HelperGoes, SameClient, HasSuccessor
      <3>2. CASE HelperLaunches \/ LaunchFails
        BY <3>2 DEF HelperLaunches, LaunchFails, programVars, GoesOnAsClient, HasSuccessor
      <3> QED
        BY <2>4, <3>1, <3>2
    <2> QED
      BY <2>1, <2>2, <2>3, <2>4
  <1> QED
    BY <1>1, <1>2, <1>3

LEMMA UpdaterSteps == UpdaterInv /\ [UpdaterNext]_updaterVars => UpdaterInv'
  <1>1. UpdaterInv /\ UNCHANGED updaterVars => UpdaterInv'
    BY DEF updaterVars, askVars, programVars, processVars, UpdaterInv, UpdateTypes, InstallsAlone, HasProgram, HasSuccessor
  <1> QED
    BY <1>1, ClientAsks, ClientKeeps, HelperKeeps DEF UpdaterNext

\* Whatever one thing fails in an update, and whenever, there is a program in
\* place and a client that runs or is on its way, but for a quit, a stop of the
\* machine and a roll-back that fails too; and two installs never write one file
\* (client/update_apply_linux.go, single_instance_startup.go).
THEOREM UpdateLeavesAClientHolds == UpdaterSpec => []UpdateLeavesAClient
  <1>1. UpdaterInv => UpdateLeavesAClient
    BY DEF UpdaterInv, InstallsAlone, HasProgram, HasSuccessor, UpdateLeavesAClient
  <1> QED
    BY <1>1, UpdaterBegins, UpdaterSteps, PTL DEF UpdaterSpec
=============================================================================
