----------------------------- MODULE Encryption -----------------------------
(***************************************************************************)
(* Whether a device encrypts what it uploads.  The account has the flag         *)
(* (server/api/handler.go, server/webui/handlers_settings.go); the sync loop      *)
(* (client/run_sync.go) and a command that runs beside it                       *)
(* (client/account_encryption.go) ask for it once, trust what was remembered     *)
(* when nobody answers (client/account_cache.go), and encrypt if there is a      *)
(* passphrase and nothing is remembered.  The settings page turns it on          *)
(* (client/handlers_settings.go).                                             *)
(*                                                                         *)
(* The flag's successive values are numbered, off and on in turn.  The code sees  *)
(* only On of a number; that one is older than another is known to the           *)
(* properties alone.                                                         *)
(***************************************************************************)
EXTENDS Integers, FiniteSetsExt

CONSTANTS
  MaxChanges,   \* bound: changes of the account's flag
  MaxRuns,      \* bound: runs of the sync loop
  MaxFaults     \* bound: writes of the cache that fail

ASSUME EncryptionBounds == {MaxChanges, MaxRuns, MaxFaults} \subseteq Nat

VARIABLES
  account,      \* the number of the flag in the users table
  passphrase,   \* there is one in the configuration
  remembered,   \* the cache file: the number of the answer it holds, or Never
  party,        \* the loop's client and a command's
  loopRun,      \* the loop's runs so far
  lateAsker,    \* the goroutine of each run that goes on asking
  enabling,     \* the settings page's request
  told,         \* history: the newest answer anybody here was to remember
  slipped,      \* history: the cache does not hold it
  faults        \* bookkeeping of the bound

encryptionVars == <<account, passphrase, remembered, party, loopRun, lateAsker, enabling, told, slipped, faults>>

Processes == {"loop", "command"}
Never == 0
Numbers == 1 .. MaxChanges + 2
On(n) == n % 2 = 0

NotRunning == [at |-> "idle", key |-> FALSE, on |-> FALSE, answer |-> Never, knew |-> Never, unsure |-> FALSE]
NotEnabling == [at |-> "none", answer |-> Never]

EncryptionInit ==
  /\ account \in {1, 2} /\ passphrase \in BOOLEAN
  /\ remembered \in {Never} \cup 1 .. account
  /\ party = [c \in Processes |-> NotRunning]
  /\ loopRun = 0 /\ lateAsker = [r \in 1 .. MaxRuns |-> [at |-> "none", answer |-> Never]]
  /\ enabling = NotEnabling
  /\ told = remembered /\ slipped = FALSE /\ faults = 0

\* encodeContent: what the client c makes of a save.
Encodes(c) == party[c].on /\ party[c].key

\* saveAccountSettingsCache: the file is replaced, or stays as it was.
KeepAnswer(n) ==
  /\ told' = Max({told, n})
  /\ \/ remembered' = n /\ UNCHANGED faults
     \/ faults < MaxFaults /\ faults' = faults + 1 /\ UNCHANGED remembered
  /\ slipped' = (remembered' # told')

\* saveAppearanceCache writes the flag back as it has read it, off if there was
\* none, with the pages' looks.
AsRead(n) == IF n = Never THEN 1 ELSE n
WriteBack(n) ==
  /\ UNCHANGED told
  /\ \/ remembered' = n /\ UNCHANGED faults
     \/ faults < MaxFaults /\ faults' = faults + 1 /\ UNCHANGED remembered
  /\ slipped' = (remembered' # told')

---------------------------------------------------------------------------
(* A client finds out. *)

Begun(c) == [party EXCEPT ![c] = [NotRunning EXCEPT !.at = "asks", !.key = passphrase]]

\* runSync, for the first time or once more; a goroutine of the run before ends
\* at its next tick, but with an answer in its hands it goes on.
LoopStarts ==
  /\ party["loop"].at \in {"idle", "works"} /\ loopRun < MaxRuns
  /\ party' = Begun("loop") /\ loopRun' = loopRun + 1
  /\ lateAsker' = [r \in 1 .. MaxRuns |->
       IF lateAsker[r].at = "ticks" THEN [lateAsker[r] EXCEPT !.at = "none"] ELSE lateAsker[r]]

CommandStarts ==
  /\ party["command"].at = "idle" /\ party' = Begun("command")
  /\ UNCHANGED <<account, passphrase, remembered, loopRun, lateAsker, enabling, told, slipped, faults>>

\* FetchAccountInfo answers: the flag of that moment.
AnswerComes(c) ==
  /\ party[c].at = "asks"
  /\ party' = [party EXCEPT ![c] = [@ EXCEPT !.at = "answered", !.answer = account]]
  /\ UNCHANGED <<account, passphrase, remembered, loopRun, lateAsker, enabling, told, slipped, faults>>

\* SetEncryption ...
AnswerApplies(c) ==
  /\ party[c].at = "answered"
  /\ party' = [party EXCEPT ![c] = [@ EXCEPT !.at = "applied", !.on = On(party[c].answer), !.knew = party[c].answer]]
  /\ UNCHANGED <<account, passphrase, remembered, loopRun, lateAsker, enabling, told, slipped, faults>>

\* ... then the cache ...
AnswerKept(c) ==
  /\ party[c].at = "applied" /\ party' = [party EXCEPT ![c].at = IF c = "loop" THEN "kept" ELSE "works"]
  /\ KeepAnswer(party[c].answer)
  /\ UNCHANGED <<account, passphrase, loopRun, lateAsker, enabling>>

\* ... and, in the loop, the looks beside it.
LooksRead ==
  /\ party["loop"].at = "kept"
  /\ party' = [party EXCEPT !["loop"] = [@ EXCEPT !.at = "looks", !.answer = AsRead(remembered)]]
  /\ UNCHANGED <<account, passphrase, remembered, loopRun, lateAsker, enabling, told, slipped, faults>>
LooksKept ==
  /\ party["loop"].at = "looks" /\ party' = [party EXCEPT !["loop"].at = "works"]
  /\ WriteBack(party["loop"].answer)
  /\ UNCHANGED <<account, passphrase, loopRun, lateAsker, enabling>>

\* Mutant: as it was, encryption stays off when nobody answers.
AssumedOff(c) == IF remembered # Never THEN On(remembered) ELSE FALSE

\* What to go by without an answer: the cache, or whether there is a passphrase.
Assumed(c) == IF remembered # Never THEN On(remembered) ELSE party[c].key

\* Three tries failed.  The loop goes on asking.
NoAnswer(c) ==
  /\ party[c].at = "asks"
  /\ party' = [party EXCEPT ![c] = [@ EXCEPT !.at = "works", !.on = Assumed(c), !.knew = told, !.unsure = slipped]]
  /\ lateAsker' = IF c = "loop" THEN [lateAsker EXCEPT ![loopRun].at = "ticks"] ELSE lateAsker
  /\ UNCHANGED <<account, passphrase, remembered, loopRun, enabling, told, slipped, faults>>

CommandEnds ==
  /\ party["command"].at = "works" /\ party' = [party EXCEPT !["command"] = NotRunning]
  /\ UNCHANGED <<account, passphrase, remembered, loopRun, lateAsker, enabling, told, slipped, faults>>

---------------------------------------------------------------------------
(* The goroutine of the run r. *)

LateAnswer(r) ==
  /\ lateAsker[r].at = "ticks" /\ lateAsker' = [lateAsker EXCEPT ![r] = [at |-> "answered", answer |-> account]]
  /\ UNCHANGED <<account, passphrase, remembered, party, loopRun, enabling, told, slipped, faults>>

\* The client it holds is its own run's.
LateApplies(r) ==
  /\ lateAsker[r].at = "answered" /\ lateAsker' = [lateAsker EXCEPT ![r].at = "applied"]
  /\ party' = IF r = loopRun
               THEN [party EXCEPT !["loop"] = [@ EXCEPT !.on = On(lateAsker[r].answer), !.knew = lateAsker[r].answer]]
               ELSE party
  /\ UNCHANGED <<account, passphrase, remembered, loopRun, enabling, told, slipped, faults>>

LateKept(r) ==
  /\ lateAsker[r].at = "applied" /\ lateAsker' = [lateAsker EXCEPT ![r].at = "kept"]
  /\ KeepAnswer(lateAsker[r].answer)
  /\ UNCHANGED <<account, passphrase, party, loopRun, enabling>>
LateLooksRead(r) ==
  /\ lateAsker[r].at = "kept" /\ lateAsker' = [lateAsker EXCEPT ![r] = [at |-> "looks", answer |-> AsRead(remembered)]]
  /\ UNCHANGED <<account, passphrase, remembered, party, loopRun, enabling, told, slipped, faults>>
LateLooksKept(r) ==
  /\ lateAsker[r].at = "looks" /\ lateAsker' = [lateAsker EXCEPT ![r] = [at |-> "none", answer |-> Never]]
  /\ WriteBack(lateAsker[r].answer)
  /\ UNCHANGED <<account, passphrase, party, loopRun, enabling>>

---------------------------------------------------------------------------
(* The account's flag. *)

Set(on) == account' = IF On(account) = on THEN account ELSE account + 1

\* handleEncryptionSettings, with the pages' session: on or off.
PageSets(on) ==
  /\ account <= MaxChanges /\ Set(on) /\ account' # account
  /\ UNCHANGED <<passphrase, remembered, party, loopRun, lateAsker, enabling, told, slipped, faults>>

\* handleEncryptionEnable of the client: the passphrase is stored first ...
EnableSaves ==
  /\ enabling.at = "none" /\ party["loop"].at = "works"
  /\ account <= MaxChanges
  /\ passphrase' = TRUE /\ enabling' = [NotEnabling EXCEPT !.at = "saved"]
  /\ UNCHANGED <<account, remembered, party, loopRun, lateAsker, told, slipped, faults>>

\* ... then handleEnableEncryption of the server, which can only turn it on ...
EnablePosts ==
  /\ enabling.at = "saved" /\ Set(TRUE) /\ enabling' = [at |-> "enabled", answer |-> account']
  /\ UNCHANGED <<passphrase, remembered, party, loopRun, lateAsker, told, slipped, faults>>

\* ... or fails, or succeeds and is not heard of ...
EnableFails ==
  /\ enabling.at = "saved" /\ enabling' = NotEnabling
  /\ UNCHANGED account \/ Set(TRUE)
  /\ UNCHANGED <<passphrase, remembered, party, loopRun, lateAsker, told, slipped, faults>>

\* ... then the cache ...
EnableKept ==
  /\ enabling.at = "enabled" /\ enabling' = [enabling EXCEPT !.at = "kept"]
  /\ KeepAnswer(enabling.answer)
  /\ UNCHANGED <<account, passphrase, party, loopRun, lateAsker>>

\* ... and the loop begins anew.
EnableRestarts ==
  /\ enabling.at = "kept" /\ enabling' = NotEnabling /\ LoopStarts
  /\ UNCHANGED <<account, passphrase, remembered, told, slipped, faults>>

EncryptionNext ==
  \/ LoopStarts /\ UNCHANGED <<account, passphrase, remembered, enabling, told, slipped, faults>>
  \/ CommandStarts \/ CommandEnds \/ LooksRead \/ LooksKept
  \/ \E c \in Processes : AnswerComes(c) \/ AnswerApplies(c) \/ AnswerKept(c) \/ NoAnswer(c)
  \/ \E r \in 1 .. MaxRuns : LateAnswer(r) \/ LateApplies(r) \/ LateKept(r)
                               \/ LateLooksRead(r) \/ LateLooksKept(r)
  \/ \E on \in BOOLEAN : PageSets(on)
  \/ EnableSaves \/ EnablePosts \/ EnableFails \/ EnableKept \/ EnableRestarts

EncryptionSpec == EncryptionInit /\ [][EncryptionNext]_encryptionVars

---------------------------------------------------------------------------
(* Properties. *)

EncryptionTypeOK ==
  LET answers == {Never} \cup Numbers
  IN /\ account \in Numbers /\ passphrase \in BOOLEAN /\ remembered \in answers /\ told \in answers
     /\ party \in [Processes -> [at : {"idle", "asks", "answered", "applied", "kept", "looks", "works"}, key : BOOLEAN,
                                  on : BOOLEAN, answer : answers, knew : answers, unsure : BOOLEAN]]
     /\ loopRun \in 0 .. MaxRuns
     /\ lateAsker \in [1 .. MaxRuns -> [at : {"none", "ticks", "answered", "applied", "kept", "looks"}, answer : answers]]
     /\ enabling \in [at : {"none", "saved", "enabled", "kept"}, answer : answers]
     /\ slipped \in BOOLEAN /\ faults \in 0 .. MaxFaults

\* It fails closed: a client that has the passphrase and yet uploads plaintext
\* was told so - the newest answer there was, its own or one that anybody on the
\* device had remembered by then, said that the account does not encrypt.
\* (unsure: the cache did not hold that answer when it was read, because it
\* could not be written, or an older one was written over it by a request under
\* way or with the looks, account_cache.go:84.)
PlaintextOnlyWhenTold ==
  \A c \in Processes :
    (party[c].at = "works" /\ party[c].key /\ ~Encodes(c) /\ ~party[c].unsure) =>
      party[c].knew # Never /\ ~On(party[c].knew)
=============================================================================
