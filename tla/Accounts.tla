------------------------------ MODULE Accounts ------------------------------
(***************************************************************************)
(* One account of the server: its password, its second factor, and the       *)
(* browser sessions and device tokens that signing in leaves (server/auth, server/webui/handlers_auth.go and          *)
(* handlers_settings.go, server/api/handler.go, server/store/sqlite.go).     *)
(*                                                                         *)
(* Passwords, authenticator secrets and recovery codes are numbered as they  *)
(* are made; the clock counts the 30-second steps of the authenticator.      *)
(***************************************************************************)
EXTENDS Naturals, FiniteSets, Sequences

CONSTANTS
  Browsers,      \* sign-ins on the web page, each of a browser of its own
  Devices,       \* sign-ins through the API, each of a device of its own
  CodeSteps,     \* bound: the steps of the clock whose codes are ever typed
  MaxTicks,      \* bound: clock ticks
  MaxPasswords,  \* bound: passwords the account has had
  MaxSecrets,    \* bound: authenticator secrets it has had
  MaxCodes,      \* bound: recovery codes it has been given
  MaxTroubles    \* bound: failed statements, restarts

SignIns == Browsers \cup Devices

ASSUME AccountBounds ==
  /\ Browsers \cap Devices = {} /\ CodeSteps \subseteq Nat
  /\ MaxPasswords \in Nat \ {0} /\ {MaxTicks, MaxSecrets, MaxCodes, MaxTroubles} \subseteq Nat

VARIABLES
  tick,       \* the clock
  password,   \* the account's password
  secret,     \* totp_secret, 0 when there is none
  enabled,    \* totp_enabled
  codes,      \* totp_recovery_codes
  made,       \* [secrets, codes] there have been
  seen,       \* totpReplaySeen: until when a code is known as used
  signIn,     \* the sign-ins under way
  live,       \* the sessions and tokens that are valid, with their password
  change,     \* the password change under way
  factor,     \* the enabling or disabling of the second factor under way
  uses,       \* history: how often each code has been accepted
  careless,   \* history: a step of a change has failed, or a restart cut it
  troubles    \* bookkeeping of the bound MaxTroubles

accountsVars == <<tick, password, secret, enabled, codes, made, seen,
                  signIn, live, change, factor, uses, careless, troubles>>

AuthCodes == (1 .. MaxSecrets) \X CodeSteps
RecoveryCodes == {0} \X (1 .. MaxCodes)
Away == [at |-> "away", typed |-> 0, proved |-> FALSE, early |-> FALSE]
NoChange == [at |-> "none", by |-> 0]
NoFactor == [at |-> "none", secret |-> 0]

AccountsInit ==
  /\ tick = 0 /\ password = 1
  /\ secret = 0 /\ enabled = FALSE /\ codes = {} /\ made = [secrets |-> 0, codes |-> 0]
  /\ seen = [c \in AuthCodes |-> 0]
  /\ signIn = [a \in SignIns |-> Away] /\ live = [a \in SignIns |-> 0]
  /\ change = NoChange /\ factor = NoFactor
  /\ uses = [c \in AuthCodes \cup RecoveryCodes |-> 0]
  /\ careless = FALSE /\ troubles = 0

Trouble == troubles < MaxTroubles /\ troubles' = troubles + 1

Tick ==
  /\ tick < MaxTicks /\ tick' = tick + 1
  /\ UNCHANGED <<password, secret, enabled, codes, made, seen, signIn, live,
                 change, factor, uses, careless, troubles>>

---------------------------------------------------------------------------
(* Signing in: the password. *)

\* Unless the account is locked (see LoginLock), its row is read and the typed
\* password compared, which takes a while; a wrong one changes nothing here.
TypePassword(a) ==
  /\ signIn[a].at = "away" /\ live[a] = 0
  /\ signIn' = [signIn EXCEPT ![a] = [Away EXCEPT !.at = "comparing", !.typed = password]]
  /\ UNCHANGED <<tick, password, secret, enabled, codes, made, seen, live,
                 change, factor, uses, careless, troubles>>

\* With a second factor the password only earns a ticket for the second step;
\* without one, the API has it compared once more.
RightPassword(a) ==
  /\ signIn[a].at = "comparing"
  /\ signIn' = [signIn EXCEPT ![a].at = IF enabled THEN "second"
                                        ELSE IF a \in Devices THEN "again" ELSE "accepted"]
  /\ UNCHANGED <<tick, password, secret, enabled, codes, made, seen, live,
                 change, factor, uses, careless, troubles>>

ComparedAgain(a) ==
  /\ signIn[a].at = "again"
  /\ signIn' = [signIn EXCEPT ![a] = IF @.typed = password THEN [@ EXCEPT !.at = "accepted"]
                                     ELSE Away]
  /\ UNCHANGED <<tick, password, secret, enabled, codes, made, seen, live,
                 change, factor, uses, careless, troubles>>

---------------------------------------------------------------------------
(* The second step. *)

\* totp.Validate: the code of this step of the clock, of the one before or of
\* the one after.
Valid(c, key) == key # 0 /\ c[1] = key /\ c[2] <= tick + 1 /\ tick <= c[2] + 1

\* Mutant: a code is remembered for one step of the clock.
RememberBriefly(c) == [seen EXCEPT ![c] = tick + 1]

\* ValidateTOTPOnce remembers the code for 95 seconds, in steps of 30.
Remember(c) == [seen EXCEPT ![c] = tick + 3]

Fresh(c) == tick > seen[c] \/ seen[c] = 0

\* The ticket has not expired, the code is right and not used before.
GiveCode(a, c) ==
  /\ signIn[a].at = "second"
  /\ Valid(c, secret) /\ Fresh(c)
  /\ seen' = Remember(c) /\ uses' = [uses EXCEPT ![c] = @ + 1]
  /\ signIn' = [signIn EXCEPT ![a].at = "accepted", ![a].proved = TRUE]
  /\ UNCHANGED <<tick, password, secret, enabled, codes, made, live,
                 change, factor, careless, troubles>>

\* ConsumeRecoveryCode deletes the row, and tells whether there was one.
Consume(c) == codes \ {c}

\* On the web page only.
GiveRecoveryCode(a, c) ==
  /\ a \in Browsers /\ signIn[a].at = "second"
  /\ c \in codes
  /\ codes' = Consume(c) /\ uses' = [uses EXCEPT ![c] = @ + 1]
  /\ signIn' = [signIn EXCEPT ![a].at = "accepted", ![a].proved = TRUE]
  /\ UNCHANGED <<tick, password, secret, enabled, made, seen, live,
                 change, factor, careless, troubles>>

\* CreateSession, or RegisterClient.
SignedIn(a) ==
  /\ signIn[a].at = "accepted"
  /\ live' = [live EXCEPT ![a] = signIn[a].typed]
  /\ signIn' = [signIn EXCEPT ![a] = [Away EXCEPT !.proved = signIn[a].proved,
                                                  !.early = signIn[a].early]]
  /\ UNCHANGED <<tick, password, secret, enabled, codes, made, seen,
                 change, factor, uses, careless, troubles>>

\* The user gives up, the ticket has expired, or the insert fails.
GiveUp(a) ==
  /\ signIn[a].at \in {"second", "accepted"}
  /\ signIn' = [signIn EXCEPT ![a] = Away]
  /\ UNCHANGED <<tick, password, secret, enabled, codes, made, seen, live,
                 change, factor, uses, careless, troubles>>

\* A session is revoked or expires, a device is removed.
SignOut(a) ==
  /\ live[a] # 0 /\ change.by # a
  /\ live' = [live EXCEPT ![a] = 0] /\ signIn' = [signIn EXCEPT ![a] = Away]
  /\ UNCHANGED <<tick, password, secret, enabled, codes, made, seen,
                 change, factor, uses, careless, troubles>>

---------------------------------------------------------------------------
(* Changing the password: the row first, then every other device's token,    *)
(* then every other browser's session.                                      *)

\* History: who was signing in when the others were signed out.
Underway(who) ==
  [a \in SignIns |-> IF a \in who /\ signIn[a].at # "away"
                     THEN [signIn[a] EXCEPT !.early = TRUE] ELSE signIn[a]]

SignsOut(who) ==
  live' = [a \in SignIns |-> IF a \in who THEN 0 ELSE live[a]] /\ signIn' = Underway(who)

ChangePassword(a) ==
  /\ live[a] # 0 /\ change.at = "none" /\ password < MaxPasswords
  /\ password' = password + 1 /\ live' = [live EXCEPT ![a] = password + 1]
  /\ change' = [at |-> "tokens", by |-> a]
  /\ UNCHANGED <<tick, secret, enabled, codes, made, seen, signIn, factor,
                 uses, careless, troubles>>

ChangeRevokesTokens ==
  /\ change.at = "tokens"
  /\ SignsOut(Devices \ {change.by}) /\ change' = [change EXCEPT !.at = "sessions"]
  /\ UNCHANGED <<tick, password, secret, enabled, codes, made, seen, factor,
                 uses, careless, troubles>>

OtherBrowsers(by) == Browsers \ {by}

ChangeDropsSessions ==
  /\ change.at = "sessions"
  /\ SignsOut(OtherBrowsers(change.by)) /\ change' = NoChange
  /\ UNCHANGED <<tick, password, secret, enabled, codes, made, seen, factor,
                 uses, careless, troubles>>

\* Either is only logged when it fails.
ChangeStepFails ==
  /\ change.at # "none" /\ Trouble /\ careless' = TRUE
  /\ change' = IF change.at = "tokens" THEN [change EXCEPT !.at = "sessions"] ELSE NoChange
  /\ UNCHANGED <<tick, password, secret, enabled, codes, made, seen, signIn, live,
                 factor, uses>>

---------------------------------------------------------------------------
(* Enabling and disabling the second factor, a statement at a time.          *)

\* serveEnable2FA shows a new secret, which a signed cookie keeps;
\* handleConfirm2FA then takes a code of it ...
ConfirmSecret(c) ==
  /\ factor.at = "none" /\ made.secrets < MaxSecrets
  /\ Valid(c, made.secrets + 1) /\ Fresh(c)
  /\ made' = [made EXCEPT !.secrets = @ + 1] /\ seen' = Remember(c)
  /\ uses' = [uses EXCEPT ![c] = @ + 1]
  /\ factor' = [at |-> "secret", secret |-> made.secrets + 1]
  /\ UNCHANGED <<tick, password, secret, enabled, codes, signIn, live, change,
                 careless, troubles>>

\* ... and handleDisable2FA one of the secret in use.
ConfirmDisabling(c) ==
  /\ factor.at = "none" /\ Valid(c, secret) /\ Fresh(c)
  /\ seen' = Remember(c) /\ uses' = [uses EXCEPT ![c] = @ + 1]
  /\ factor' = [at |-> "secret", secret |-> 0]
  /\ UNCHANGED <<tick, password, secret, enabled, codes, made, signIn, live,
                 change, careless, troubles>>

SetTOTPSecret ==
  /\ factor.at = "secret"
  /\ secret' = factor.secret /\ factor' = [factor EXCEPT !.at = "flag"]
  /\ UNCHANGED <<tick, password, enabled, codes, made, seen, signIn, live, change,
                 uses, careless, troubles>>

SetTOTPEnabled ==
  /\ factor.at = "flag"
  /\ enabled' = (factor.secret # 0) /\ factor' = [factor EXCEPT !.at = "tokens"]
  /\ UNCHANGED <<tick, password, secret, codes, made, seen, signIn, live, change,
                 uses, careless, troubles>>

FactorRevokesTokens ==
  /\ factor.at = "tokens"
  /\ SignsOut(Devices) /\ factor' = [factor EXCEPT !.at = "codes"]
  /\ UNCHANGED <<tick, password, secret, enabled, codes, made, seen, change,
                 uses, careless, troubles>>

\* SetRecoveryCodes replaces the set; a set is one code here.
NewCodes == codes' = {<<0, made.codes + 1>>} /\ made' = [made EXCEPT !.codes = @ + 1]

FactorEnds ==
  /\ factor.at = "codes" /\ factor' = NoFactor
  /\ IF factor.secret = 0 THEN codes' = {} /\ UNCHANGED made
     ELSE made.codes < MaxCodes /\ NewCodes
  /\ UNCHANGED <<tick, password, secret, enabled, seen, signIn, live, change,
                 uses, careless, troubles>>

\* The first two end the request, the last two are only logged.
FactorStepFails ==
  /\ factor.at # "none" /\ Trouble /\ careless' = TRUE
  /\ factor' = IF factor.at = "tokens" THEN [factor EXCEPT !.at = "codes"] ELSE NoFactor
  /\ UNCHANGED <<tick, password, secret, enabled, codes, made, seen, signIn, live,
                 change, uses>>

RegenerateCodes ==
  /\ enabled /\ made.codes < MaxCodes /\ NewCodes
  /\ UNCHANGED <<tick, password, secret, enabled, seen, signIn, live, change,
                 factor, uses, careless, troubles>>

\* The used codes are in memory only, as are the requests; a
\* ticket is the browser's.
RestartAccounts ==
  /\ Trouble
  /\ seen' = [c \in AuthCodes |-> 0]
  /\ signIn' = [a \in SignIns |-> IF signIn[a].at \in {"comparing", "again", "accepted"}
                                  THEN Away ELSE signIn[a]]
  /\ change' = NoChange /\ factor' = NoFactor
  /\ careless' = (careless \/ change.at # "none" \/ factor.at # "none")
  /\ uses' = [c \in DOMAIN uses |-> IF c \in AuthCodes THEN 0 ELSE uses[c]]
  /\ UNCHANGED <<tick, password, secret, enabled, codes, made, live>>

AccountsNext ==
  \/ Tick
  \/ \E a \in SignIns :
       \/ TypePassword(a) \/ RightPassword(a) \/ ComparedAgain(a)
       \/ \E c \in AuthCodes : GiveCode(a, c)
       \/ \E c \in RecoveryCodes : GiveRecoveryCode(a, c)
       \/ SignedIn(a) \/ GiveUp(a) \/ SignOut(a) \/ ChangePassword(a)
  \/ ChangeRevokesTokens \/ ChangeDropsSessions \/ ChangeStepFails
  \/ \E c \in AuthCodes : ConfirmSecret(c) \/ ConfirmDisabling(c)
  \/ SetTOTPSecret \/ SetTOTPEnabled \/ FactorRevokesTokens \/ FactorEnds \/ FactorStepFails
  \/ RegenerateCodes \/ RestartAccounts

AccountsSpec == AccountsInit /\ [][AccountsNext]_accountsVars

---------------------------------------------------------------------------
(* Properties. *)

AccountsTypeOK ==
  /\ tick \in 0 .. MaxTicks /\ password \in 1 .. MaxPasswords
  /\ secret \in 0 .. MaxSecrets /\ enabled \in BOOLEAN /\ codes \subseteq RecoveryCodes
  /\ made \in [secrets : 0 .. MaxSecrets, codes : 0 .. MaxCodes]
  /\ seen \in [AuthCodes -> Nat]
  /\ signIn \in [SignIns -> [at : {"away", "comparing", "again", "second", "accepted"},
                             typed : 0 .. MaxPasswords, proved : BOOLEAN, early : BOOLEAN]]
  /\ live \in [SignIns -> 0 .. MaxPasswords]
  /\ change.at \in {"none", "tokens", "sessions"}
  /\ factor.at \in {"none", "secret", "flag", "tokens", "codes"}

\* A code, of the authenticator or for recovery, is accepted once, whoever else
\* gives it at the same time and for as long as it is valid (until a restart,
\* which forgets the authenticator's).
CodesWorkOnce == \A c \in DOMAIN uses : uses[c] <= 1

\* Once a password change is through, whoever is signed in has shown the new
\* password or was signing in while the others were signed out; once the
\* second factor is on, every device has shown it or was signing in then.
OthersAreSignedOut ==
  ~careless =>
    \A a \in SignIns : live[a] # 0 /\ ~signIn[a].early =>
      /\ change.at = "none" => live[a] = password
      /\ factor.at = "none" /\ enabled /\ a \in Devices => signIn[a].proved

\* What was used up or signed out stays so.
SpentStaysSpent == CodesWorkOnce /\ OthersAreSignedOut
=============================================================================
