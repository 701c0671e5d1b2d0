---------------------------- MODULE DeviceToken ----------------------------
(***************************************************************************)
(* The token that lets a device speak to the server: issued at login        *)
(* (client/login.go), rotated every month (client/token_refresh.go), kept   *)
(* in the operating system's keyring or, when that refuses, in a file of    *)
(* its own (client/secrets.go), written back by whoever saves the           *)
(* configuration (client/config.go), and reloaded by a request that was     *)
(* answered 401 (client/sync/client.go).                                    *)
(*                                                                         *)
(* The server keeps one token for a device: rotating swaps it at once.  So  *)
(* everything between the swap and the save can lose the device.  Tokens    *)
(* are numbered in the order the server issues them; 0 is none.             *)
(***************************************************************************)
EXTENDS Naturals, FiniteSets

CONSTANTS
  Requests,   \* API requests in flight at once
  MaxTokens,  \* bound: tokens the server issues
  MaxOutages  \* bound: times the keyring stops answering

ASSUME TokenBounds == MaxTokens \in Nat \ {0} /\ MaxOutages \in Nat

VARIABLES
  accepted,  \* the tokens in the server's clients table for this device
  issued,    \* how many tokens the server has issued
  ring,      \* the token in the keyring
  copy,      \* the token in secrets.enc
  ringUp,    \* the keyring answers
  outages,   \* bookkeeping of the bound MaxOutages
  cfgToken,  \* the token of the running configuration (cfg.Token)
  liveToken, \* the token of the running sync client (Client.token)
  rotation,  \* maybeRefreshToken
  editor,    \* a settings page or menu entry: loadConfig, change, saveConfig
  login,     \* a login that has its token but has not saved it
  request,   \* the requests
  mishap     \* history: something has gone wrong that can cost the token

secrets == <<ring, copy>>
tokenVars == <<accepted, issued, ring, copy, ringUp, outages, cfgToken, liveToken,
               rotation, editor, login, request, mishap>>

Tokens == 0 .. MaxTokens

TokenInit ==
  /\ accepted = {1} /\ issued = 1
  /\ ring = 1 /\ copy = 0 /\ ringUp = TRUE /\ outages = 0
  /\ cfgToken = 1 /\ liveToken = 1
  /\ rotation = [pc |-> "idle", new |-> 0]
  /\ editor = [pc |-> "idle", token |-> 0, unavailable |-> FALSE]
  /\ login = 0
  /\ request = [r \in Requests |-> [pc |-> "idle", token |-> 0]]
  /\ mishap = FALSE

---------------------------------------------------------------------------
(* The credential store. *)

\* secretGetStatus: the keyring first, then the file.
SecretGet == IF ringUp /\ ring # 0 THEN ring ELSE copy
Unavailable == ~ringUp /\ copy = 0

\* What a client started on a good day finds.
Stored == IF ring # 0 THEN ring ELSE copy

\* secretSet: the keyring, or else the file.  The other place
\* keeps what it had.
SecretSet(token) ==
  /\ ring' = IF ringUp THEN token ELSE ring
  /\ copy' = IF ringUp THEN copy ELSE token

SecretDelete ==
  /\ ring' = IF ringUp THEN 0 ELSE ring
  /\ copy' = 0

\* Mutant: an empty token always deletes.
SaveTokenBlindly(token, unavailable) ==
  IF token # 0 THEN SecretSet(token) ELSE SecretDelete

\* saveConfig, as far as the token goes: an empty token deletes the secret,
\* unless it was empty because the store could not be read.
SaveToken(token, unavailable) ==
  IF token # 0 THEN SecretSet(token)
  ELSE IF ~unavailable THEN SecretDelete ELSE UNCHANGED secrets

\* The mishap of a save: the two places hold different tokens, so an outage
\* brings back the other one; a page holds the configuration from before.
CopiesDiffer == ring' # 0 /\ copy' # 0 /\ ring' # copy'

Overlaps == editor.pc = "editing"

---------------------------------------------------------------------------
(* Rotation: maybeRefreshToken, then SetToken. *)

\* The server swaps the token; the answer arrives, or is lost, or the sync loop
\* was restarted meanwhile.
RotateAsk(arrives) ==
  /\ rotation.pc = "idle" /\ cfgToken # 0
  /\ IF cfgToken \in accepted
       THEN /\ issued < MaxTokens /\ issued' = issued + 1
            /\ accepted' = (accepted \ {cfgToken}) \cup {issued + 1}
            /\ rotation' = IF arrives THEN [pc |-> "save", new |-> issued + 1] ELSE rotation
            /\ mishap' = (mishap \/ ~arrives)
       ELSE UNCHANGED <<accepted, issued, rotation, mishap>>
  /\ UNCHANGED <<ring, copy, ringUp, outages, cfgToken, liveToken, editor, login, request>>

\* The new token is saved, and only then used.
RotateSave ==
  /\ rotation.pc = "save"
  /\ SaveToken(rotation.new, FALSE)
  /\ mishap' = (mishap \/ CopiesDiffer \/ Overlaps)
  /\ cfgToken' = rotation.new
  /\ rotation' = [pc |-> "set", new |-> 0]
  /\ UNCHANGED <<accepted, issued, ringUp, outages, liveToken, editor, login, request>>

\* Saving fails: with the keyring up the secret is already in it, otherwise
\* the new token is nowhere.  It is not adopted.
RotateSaveFails ==
  /\ rotation.pc = "save"
  /\ IF ringUp THEN SecretSet(rotation.new) ELSE UNCHANGED secrets
  /\ mishap' = TRUE
  /\ rotation' = [pc |-> "set", new |-> 0]
  /\ UNCHANGED <<accepted, issued, ringUp, outages, cfgToken, liveToken, editor, login, request>>

\* The daily ticker sets the live client's token whether it rotated or not.
RotateSet ==
  /\ rotation.pc \in {"idle", "set"}
  /\ liveToken' = IF cfgToken = 0 THEN liveToken ELSE cfgToken
  /\ rotation' = [pc |-> "idle", new |-> 0]
  /\ UNCHANGED <<accepted, issued, ring, copy, ringUp, outages, cfgToken, editor, login, request, mishap>>

---------------------------------------------------------------------------
(* Others that save the configuration. *)

\* A page loads the whole configuration, token included ...
EditorLoads ==
  /\ editor.pc = "idle"
  /\ editor' = [pc |-> "editing", token |-> SecretGet, unavailable |-> Unavailable]
  /\ UNCHANGED <<accepted, issued, ring, copy, ringUp, outages, cfgToken, liveToken, rotation, login, request, mishap>>

\* ... and saves the whole of it.
EditorSaves ==
  /\ editor.pc = "editing"
  /\ SaveToken(editor.token, editor.unavailable)
  /\ editor' = [pc |-> "idle", token |-> 0, unavailable |-> FALSE]
  /\ mishap' = (mishap \/ CopiesDiffer)
  /\ UNCHANGED <<accepted, issued, ringUp, outages, cfgToken, liveToken, rotation, login, request>>

\* A login registers the device anew; its other row stays on the server.
LoginAnswered ==
  /\ login = 0 /\ issued < MaxTokens
  /\ issued' = issued + 1 /\ accepted' = accepted \cup {issued + 1} /\ login' = issued + 1
  /\ UNCHANGED <<ring, copy, ringUp, outages, cfgToken, liveToken, rotation, editor, request, mishap>>

\* It is saved and the sync loop starts over with it; a rotation that was
\* waiting for its answer is cancelled.
LoginSaves ==
  /\ login # 0
  /\ SaveToken(login, FALSE)
  /\ cfgToken' = login /\ liveToken' = login /\ login' = 0
  /\ mishap' = (mishap \/ CopiesDiffer \/ Overlaps)
  /\ UNCHANGED <<accepted, issued, ringUp, outages, rotation, editor, request>>

---------------------------------------------------------------------------
(* Requests. *)

Send(r) ==
  /\ request[r].pc = "idle"
  /\ request' = [request EXCEPT ![r] = [pc |-> "sent", token |-> liveToken]]
  /\ UNCHANGED <<accepted, issued, ring, copy, ringUp, outages, cfgToken, liveToken, rotation, editor, login, mishap>>

Answered(r) ==
  /\ request[r].pc \in {"sent", "resent"} /\ request[r].token \in accepted
  /\ request' = [request EXCEPT ![r] = [pc |-> "idle", token |-> 0]]
  /\ UNCHANGED <<accepted, issued, ring, copy, ringUp, outages, cfgToken, liveToken, rotation, editor, login, mishap>>

\* Mutant: a latch: only the first token is ever replaced.
ReloadOnce(r) ==
  /\ request[r].pc = "sent" /\ request[r].token \notin accepted
  /\ IF SecretGet \notin {0, liveToken} /\ liveToken = 1
       THEN /\ liveToken' = SecretGet
            /\ request' = [request EXCEPT ![r] = [pc |-> "resent", token |-> SecretGet]]
       ELSE /\ request' = [request EXCEPT ![r] = [pc |-> "idle", token |-> 0]]
            /\ UNCHANGED liveToken
  /\ UNCHANGED <<accepted, issued, ring, copy, ringUp, outages, cfgToken, rotation, editor, login, mishap>>

\* A 401: tryReloadToken takes over a stored token that differs from the
\* client's, and the request is sent once more; otherwise it fails.
Reload(r) ==
  /\ request[r].pc = "sent" /\ request[r].token \notin accepted
  /\ IF SecretGet \notin {0, liveToken}
       THEN /\ liveToken' = SecretGet
            /\ request' = [request EXCEPT ![r] = [pc |-> "resent", token |-> SecretGet]]
       ELSE /\ request' = [request EXCEPT ![r] = [pc |-> "idle", token |-> 0]]
            /\ UNCHANGED liveToken
  /\ UNCHANGED <<accepted, issued, ring, copy, ringUp, outages, cfgToken, rotation, editor, login, mishap>>

Refused(r) ==
  /\ request[r].pc = "resent" /\ request[r].token \notin accepted
  /\ request' = [request EXCEPT ![r] = [pc |-> "idle", token |-> 0]]
  /\ UNCHANGED <<accepted, issued, ring, copy, ringUp, outages, cfgToken, liveToken, rotation, editor, login, mishap>>

---------------------------------------------------------------------------
(* The world. *)

\* The process ends and starts: a rotation that was swapped but not saved is
\* lost, and the store is read as it is.
SyncRestarts ==
  /\ SecretGet # 0
  /\ cfgToken' = SecretGet /\ liveToken' = SecretGet
  /\ mishap' = (mishap \/ rotation.pc = "save")
  /\ rotation' = [pc |-> "idle", new |-> 0]
  /\ editor' = [pc |-> "idle", token |-> 0, unavailable |-> FALSE]
  /\ login' = 0
  /\ request' = [r \in Requests |-> [pc |-> "idle", token |-> 0]]
  /\ UNCHANGED <<accepted, issued, ring, copy, ringUp, outages>>

KeyringChanges ==
  /\ ringUp => outages < MaxOutages
  /\ ringUp' = ~ringUp
  /\ outages' = IF ringUp THEN outages + 1 ELSE outages
  /\ UNCHANGED <<accepted, issued, ring, copy, cfgToken, liveToken, rotation, editor, login, request, mishap>>

\* A password change elsewhere, a removed device, or ninety days unused.
Revoked ==
  /\ accepted # {} /\ accepted' = {} /\ mishap' = TRUE
  /\ UNCHANGED <<issued, ring, copy, ringUp, outages, cfgToken, liveToken, rotation, editor, login, request>>

RequestStep(r) == Send(r) \/ Answered(r) \/ Reload(r) \/ Refused(r)

TokenNext ==
  \/ \E arrives \in BOOLEAN : RotateAsk(arrives)
  \/ RotateSave \/ RotateSaveFails \/ RotateSet
  \/ EditorLoads \/ EditorSaves \/ LoginAnswered \/ LoginSaves
  \/ \E r \in Requests : RequestStep(r)
  \/ SyncRestarts \/ KeyringChanges \/ Revoked

\* A sync loop keeps sending; nothing else must happen.
TokenFairness == \A r \in Requests : WF_tokenVars(RequestStep(r))

TokenSpec == TokenInit /\ [][TokenNext]_tokenVars /\ TokenFairness

---------------------------------------------------------------------------
(* Properties. *)

TokenTypeOK ==
  /\ accepted \subseteq Tokens \ {0} /\ issued \in Tokens
  /\ {ring, copy, cfgToken, liveToken, login} \subseteq Tokens
  /\ ringUp \in BOOLEAN /\ outages \in 0 .. MaxOutages
  /\ rotation \in [pc : {"idle", "save", "set"}, new : Tokens]
  /\ editor \in [pc : {"idle", "editing"}, token : Tokens, unavailable : BOOLEAN]
  /\ request \in [Requests -> [pc : {"idle", "sent", "resent"}, token : Tokens]]
  /\ mishap \in BOOLEAN

\* The stored token is one the server accepts, except between the swap and the
\* save of a rotation - or after one of the mishap the code does not cover:
\* an answer or a process lost in that window, a save that failed, a page that
\* saved the configuration it had loaded before the rotation, a keyring that
\* still holds the token from before an outage, a revocation.
TokenKept ==
  Stored \in accepted \/ rotation.pc = "save" \/ mishap

\* A rotated token reaches the running client: while the store holds a good
\* token, the client has one again and again, whichever rotation it was
\* (client.go:966-987: "a latch here once wedged every long-running install
\* after its second monthly rotation").
TokenHeals ==
  <>[](ringUp /\ Stored \in accepted) => []<>(liveToken \in accepted)
=============================================================================
