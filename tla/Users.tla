-------------------------------- MODULE Users --------------------------------
(***************************************************************************)
(* The accounts of the server: the setup wizard that makes the first one      *)
(* (server/webui/handlers_setup.go), registration, the administrators' pages   *)
(* (handlers_admin.go) and what they do to the tables and to the storage       *)
(* directory of an account (server/store/sqlite.go, save_storage.go), while    *)
(* its owner uploads and signs in.                                           *)
(*                                                                         *)
(* Accounts are numbered in the order they are made.  A request is checked     *)
(* when it arrives and acts later, a statement at a time.  Passwords and       *)
(* second factors are the business of Accounts.                              *)
(***************************************************************************)
EXTENDS Naturals, FiniteSets

CONSTANTS
  Requests,     \* requests that can be under way at a time
  MaxAccounts,  \* bound: accounts ever made
  MaxMishaps    \* bound: restarts, failed statements and failed file operations

ASSUME UsersBounds == MaxAccounts \in Nat \ {0} /\ MaxMishaps \in Nat

VARIABLES
  users,     \* the users table: the role, and whether the account is disabled
  tied,      \* accounts with rows in tables that DeleteUser leaves alone, sessions first
  devices,   \* accounts with rows in clients
  saves,     \* accounts with rows in saves and save_versions
  stored,    \* accounts with files in their storage directory
  flagged,  \* accounts with rows in integrity_findings
  request,   \* the requests under way
  setup,    \* setupDone is not set yet
  cut,       \* history: accounts whose files were not all removed
  mishaps    \* bookkeeping of the bound MaxMishaps

usersVars == <<users, tied, devices, saves, stored, flagged, request, setup, cut, mishaps>>

AccountIds == 1 .. MaxAccounts
NoUser(role) == [role |-> role, disabled |-> FALSE]   \* "none" yet, or "gone"
Exists(u) == users[u].role \in {"user", "admin"}
Idle == [at |-> "idle", on |-> 0]

UsersInit ==
  /\ users = [u \in AccountIds |-> NoUser("none")]
  /\ tied = {} /\ devices = {} /\ saves = {} /\ stored = {} /\ flagged = {}
  /\ request = [r \in Requests |-> Idle]
  /\ setup = TRUE /\ cut = {} /\ mishaps = 0

Mishap == mishaps < MaxMishaps /\ mishaps' = mishaps + 1

To(r, at, on) == request' = [request EXCEPT ![r] = [at |-> at, on |-> on]]
Ends(r) == request' = [request EXCEPT ![r] = Idle]

---------------------------------------------------------------------------
(* New accounts. *)

\* CreateUser: the row, under an id of its own.
NewAccount(u, role) ==
  /\ users[u].role = "none" /\ \A v \in 1 .. u - 1 : users[v].role # "none"
  /\ users' = [users EXCEPT ![u] = [role |-> role, disabled |-> FALSE]]

\* CountUsers, in setupNeeded and once more in handleSetupSubmit; it tells
\* nothing of a second submission that has counted too.
SetupBegins(r) ==
  /\ request[r].at = "idle" /\ setup
  /\ \A u \in AccountIds : ~Exists(u)
  /\ To(r, "register", 0)
  /\ UNCHANGED <<flagged, users, tied, devices, saves, stored, setup, cut, mishaps>>

\* setupNeeded finds an account: the wizard is over.
WizardEnds ==
  /\ setup /\ \E u \in AccountIds : Exists(u)
  /\ setup' = FALSE
  /\ UNCHANGED <<flagged, users, tied, devices, saves, stored, request, cut, mishaps>>

SetupRegisters(r) ==
  /\ request[r].at = "register"
  /\ \E u \in AccountIds : NewAccount(u, "user") /\ To(r, "promote", u)
  /\ UNCHANGED <<flagged, tied, devices, saves, stored, setup, cut, mishaps>>

\* SetUserRole, the settings, setupDone, and a session at once.
SetupPromotes(r) ==
  LET u == request[r].on
  IN /\ request[r].at = "promote"
     /\ users' = [users EXCEPT ![u].role = IF Exists(u) THEN "admin" ELSE @]
     /\ tied' = IF Exists(u) THEN tied \cup {u} ELSE tied
     /\ setup' = FALSE /\ Ends(r)
     /\ UNCHANGED <<flagged, devices, saves, stored, cut, mishaps>>

\* The role is not written, which is only logged; or the directory of the new
\* account cannot be made, which ends the request.
SetupFails(r) ==
  /\ request[r].at = "promote" /\ Mishap
  /\ setup' \in {setup, FALSE} /\ Ends(r)
  /\ UNCHANGED <<flagged, users, tied, devices, saves, stored, cut>>

\* Registration on the page and through the API, which ask nothing of the wizard.
Register ==
  /\ \E u \in AccountIds : NewAccount(u, "user")
  /\ UNCHANGED <<flagged, tied, devices, saves, stored, request, setup, cut, mishaps>>

---------------------------------------------------------------------------
(* The administrators. *)

\* requireSession and requireAdmin.
MayAdminister(by) ==
  by \in tied /\ users[by].role = "admin" /\ ~users[by].disabled

AdminCreates(by) ==
  /\ MayAdminister(by)
  /\ \E u \in AccountIds : NewAccount(u, "user")
  /\ UNCHANGED <<flagged, tied, devices, saves, stored, request, setup, cut, mishaps>>

\* Nobody disables or deletes the account he is signed in with.
AdminAsks(r, by, u) ==
  /\ request[r].at = "idle" /\ MayAdminister(by) /\ Exists(u)
  /\ \/ u # by /\ To(r, "disable", u)
     \/ To(r, "enable", u)
     \/ u # by /\ To(r, "paths", u)
  /\ UNCHANGED <<flagged, users, tied, devices, saves, stored, setup, cut, mishaps>>

Disables(r) ==
  LET u == request[r].on
  IN /\ request[r].at \in {"disable", "enable"}
     /\ users' = [users EXCEPT ![u] = IF Exists(u)
                    THEN [@ EXCEPT !.disabled = request[r].at = "disable"] ELSE @]
     /\ Ends(r)
     /\ UNCHANGED <<flagged, tied, devices, saves, stored, setup, cut, mishaps>>

RevokesClient(by, u) ==
  /\ MayAdminister(by) /\ u \in devices
  /\ devices' = devices \ {u}
  /\ UNCHANGED <<flagged, users, tied, saves, stored, request, setup, cut, mishaps>>

---------------------------------------------------------------------------
(* DeleteUser. *)

\* Mutant: the files go first.
ReadsPathsAndRemoves(r) ==
  /\ request[r].at = "paths" /\ To(r, "delete", request[r].on)
  /\ stored' = stored \ {request[r].on}
  /\ UNCHANGED <<flagged, users, tied, devices, saves, setup, cut, mishaps>>

\* The paths of the files are read before the transaction.
ReadsPaths(r) ==
  /\ request[r].at = "paths" /\ To(r, "delete", request[r].on)
  /\ UNCHANGED <<flagged, users, tied, devices, saves, stored, setup, cut, mishaps>>

\* The rows of save_versions, saves and clients, then the account's own: which
\* the foreign keys refuse while another table refers to it, and then all of it
\* is rolled back.  The rows of integrity_findings stay.
DeletesRows(r) ==
  LET u == request[r].on
  IN /\ request[r].at = "delete"
     /\ IF u \in tied THEN Ends(r) /\ UNCHANGED <<users, devices, saves>>
        ELSE /\ users' = [users EXCEPT ![u] = NoUser("gone")]
             /\ saves' = saves \ {u} /\ devices' = devices \ {u}
             /\ To(r, "files", u)
     /\ UNCHANGED <<flagged, tied, stored, setup, cut, mishaps>>

\* The files of those paths, and the whole directory.
RemovesFiles(r) ==
  /\ request[r].at = "files"
  /\ stored' = stored \ {request[r].on} /\ Ends(r)
  /\ UNCHANGED <<flagged, users, tied, devices, saves, setup, cut, mishaps>>

---------------------------------------------------------------------------
(* The owner of an account. *)

\* A session, preferences, a conflict, a recovery code ...: rows that refer to
\* the account.
OwnerLeavesRows(u) ==
  /\ Exists(u) /\ ~users[u].disabled /\ u \notin tied
  /\ tied' = tied \cup {u}
  /\ UNCHANGED <<flagged, users, devices, saves, stored, request, setup, cut, mishaps>>

\* The last of them goes: the owner signs out, the session expires, or it is
\* dropped when a request of a disabled account comes with it.
LastRowGoes(u) ==
  /\ u \in tied /\ tied' = tied \ {u}
  /\ UNCHANGED <<flagged, users, devices, saves, stored, request, setup, cut, mishaps>>

\* RegisterClient, with the foreign key.
DeviceSignsIn(u) ==
  /\ Exists(u) /\ ~users[u].disabled /\ u \notin devices
  /\ devices' = devices \cup {u}
  /\ UNCHANGED <<flagged, users, tied, saves, stored, request, setup, cut, mishaps>>

\* A device with a token of an account that is not disabled pushes ...
UploadBegins(r, u) ==
  /\ request[r].at = "idle" /\ u \in devices /\ ~users[u].disabled
  /\ To(r, "upload", u)
  /\ UNCHANGED <<flagged, users, tied, devices, saves, stored, setup, cut, mishaps>>

\* ... and the file it has staged is promoted in the transaction that wrote the
\* rows: after the foreign key has been checked.
UploadCommits(r) ==
  LET u == request[r].on
  IN /\ request[r].at = "upload" /\ Ends(r)
     /\ IF Exists(u) THEN saves' = saves \cup {u} /\ stored' = stored \cup {u}
        ELSE UNCHANGED <<saves, stored>>
     /\ UNCHANGED <<flagged, users, tied, devices, setup, cut, mishaps>>

---------------------------------------------------------------------------
(* The weekly job. *)

\* RunIntegrityCheck reads the saves of an account ...
ScanBegins(r, u) ==
  /\ request[r].at = "idle" /\ u \in saves
  /\ To(r, "check", u)
  /\ UNCHANGED <<flagged, users, tied, devices, saves, stored, setup, cut, mishaps>>

\* ... and records what is damaged, or clears what it recorded before, in a
\* transaction of its own.  These rows refer to no account.
FlagsAccount(r) ==
  /\ request[r].at = "check" /\ Ends(r)
  /\ flagged' \in {flagged \cup {request[r].on}, flagged \ {request[r].on}}
  /\ UNCHANGED <<users, tied, devices, saves, stored, setup, cut, mishaps>>

---------------------------------------------------------------------------

\* A commit that fails after the promotion leaves its file.
UploadFails(r) ==
  LET u == request[r].on
  IN /\ request[r].at = "upload" /\ Exists(u) /\ Mishap /\ Ends(r)
     /\ stored' = stored \cup {u}
     /\ UNCHANGED <<flagged, users, tied, devices, saves, setup, cut>>

\* A failed statement rolls a deletion back; files that cannot be removed stay.
DeletionFails(r) ==
  /\ request[r].at \in {"paths", "delete", "files"} /\ Mishap /\ Ends(r)
  /\ cut' = IF request[r].at = "files" THEN cut \cup {request[r].on} ELSE cut
  /\ UNCHANGED <<flagged, users, tied, devices, saves, stored, setup>>

\* Requests end; whether the wizard is due is counted again.
RestartUsers ==
  /\ Mishap
  /\ cut' = cut \cup {request[r].on : r \in {q \in Requests : request[q].at = "files"}}
  /\ request' = [r \in Requests |-> Idle]
  /\ setup' = \A u \in AccountIds : ~Exists(u)
  /\ UNCHANGED <<flagged, users, tied, devices, saves, stored>>

UsersNext ==
  \/ \E r \in Requests :
       \/ SetupBegins(r) \/ SetupRegisters(r) \/ SetupPromotes(r) \/ SetupFails(r)
       \/ \E by, u \in AccountIds : AdminAsks(r, by, u)
       \/ Disables(r) \/ ReadsPaths(r) \/ DeletesRows(r) \/ RemovesFiles(r)
       \/ \E u \in AccountIds : UploadBegins(r, u) \/ ScanBegins(r, u)
       \/ FlagsAccount(r)
       \/ UploadCommits(r) \/ UploadFails(r) \/ DeletionFails(r)
  \/ Register \/ WizardEnds
  \/ \E u \in AccountIds :
       \/ AdminCreates(u) \/ OwnerLeavesRows(u) \/ LastRowGoes(u) \/ DeviceSignsIn(u)
       \/ \E v \in AccountIds : RevokesClient(u, v)
  \/ RestartUsers

UsersSpec == UsersInit /\ [][UsersNext]_usersVars

---------------------------------------------------------------------------
(* Properties. *)

UsersTypeOK ==
  /\ users \in [AccountIds -> [role : {"none", "gone", "user", "admin"}, disabled : BOOLEAN]]
  /\ tied \cup devices \cup saves \cup stored \cup flagged \subseteq AccountIds
  /\ request \in [Requests -> [at : {"idle", "register", "promote", "disable", "enable",
                                    "paths", "delete", "files", "upload", "check"},
                              on : 0 .. MaxAccounts]]
  /\ setup \in BOOLEAN /\ cut \subseteq AccountIds /\ mishaps \in 0 .. MaxMishaps

\* A deletion takes an account with all it has, or leaves it whole: whoever
\* uploads, signs in or deletes at the same time and wherever it is refused, a
\* row of an account that is there has its file, and an account that is gone
\* has no rows and, once nobody is removing its files, no files - unless
\* removing them failed or was cut short (sqlite.go:320-376).  But for the
\* findings of the integrity check, which a deletion leaves alone
\* (migrate.go:476): their account was there once.
DeletionIsWhole ==
  \A u \in AccountIds :
    IF Exists(u) THEN u \in saves => u \in stored
    ELSE /\ u \notin tied \cup devices \cup saves
         /\ u \in flagged => users[u].role = "gone"
         /\ u \in stored => u \in cut \/ \E r \in Requests : request[r] = [at |-> "files", on |-> u]
=============================================================================
