------------------------------ MODULE Archive -------------------------------
(***************************************************************************)
(* An account's saves in a zip file and back: the export and the import of the   *)
(* web pages (server/webui/handlers_export_import.go) and the export command of   *)
(* the client (client/export.go), which decrypts.  Each lists the saves first     *)
(* and reads them one at a time, while devices go on uploading.  (One of the      *)
(* three runs at a time here.)                                               *)
(*                                                                         *)
(* A save's bytes are a version and whether they are ciphertext; the hash is that  *)
(* of the plaintext, when the bytes are what the row says.  The manifest's        *)
(* members and the archive's file names are left out: a place has its own.         *)
(***************************************************************************)
EXTENDS FiniteSets, Naturals

CONSTANTS
  Places,     \* the account's slots
  MaxWrites,  \* bound: uploads, whole or broken off
  MaxSpoils   \* bound: files and requests that fail

ASSUME ArchiveBounds == IsFiniteSet(Places) /\ {MaxWrites, MaxSpoils} \subseteq Nat

VARIABLES
  shelf,      \* the rows with their files
  spoiled,    \* rows that GetSave cannot read
  export,     \* the page's export
  download,   \* the command's
  archive,    \* the finished zip file
  import,     \* the page's import
  torn,       \* history: places written to between the listing and the reading of an export,
              \* and what was mixed before
  mixed,      \* history: rows that an import took from a torn entry, and rows whose file
              \* has the bytes of an upload that was not committed
  writes, spoils  \* bookkeeping of the bounds

archiveVars == <<shelf, spoiled, export, download, archive, import, torn, mixed, writes, spoils>>

Bytes == [ver : 0 .. MaxWrites, cipher : BOOLEAN]
Plain(bytes) == [bytes EXCEPT !.cipher = FALSE]
Gone == [hash |-> Plain([ver |-> 0, cipher |-> FALSE]), sealed |-> FALSE, bytes |-> [ver |-> 0, cipher |-> FALSE],
         there |-> FALSE]
ArchiveRows == [hash : Bytes, sealed : BOOLEAN, bytes : Bytes, there : BOOLEAN]
RowOf(bytes) == [hash |-> Plain(bytes), sealed |-> bytes.cipher, bytes |-> bytes, there |-> TRUE]

NoExport == [at |-> "idle", list |-> [p \in Places |-> Gone], left |-> {}, entries |-> [p \in Places |-> Gone],
         omitted |-> {}]
NoZip == [made |-> FALSE, chosen |-> {}, entries |-> [p \in Places |-> Gone], omitted |-> {}, torn |-> {}]

ArchiveInit ==
  /\ shelf \in [Places -> {Gone} \cup {RowOf(b) : b \in [ver : {0}, cipher : BOOLEAN]}]
  /\ spoiled = {} /\ export = NoExport /\ download = NoExport /\ archive = NoZip
  /\ import = [at |-> "idle", left |-> {}, failed |-> 0]
  /\ torn = {} /\ mixed = {} /\ writes = 0 /\ spoils = 0

There == {p \in Places : shelf[p].there}
Listed(e) == {p \in Places : e.list[p].there}

\* Writing to p makes untrue what the page's export has listed of it and not yet
\* read; the command finds that out.
Tears(p) ==
  torn' = IF p \in export.left THEN torn \cup {p} ELSE torn

---------------------------------------------------------------------------
(* What else happens to the saves. *)

\* handlePush, from a device that encrypts or from one that does not.
Uploads(p) ==
  /\ writes < MaxWrites /\ writes' = writes + 1
  /\ \E cipher \in BOOLEAN : shelf' = [shelf EXCEPT ![p] = RowOf([ver |-> writes', cipher |-> cipher])]
  /\ spoiled' = spoiled \ {p} /\ mixed' = mixed \ {p} /\ Tears(p)
  /\ UNCHANGED <<export, download, archive, import, spoils>>

Deletes(p) ==
  /\ shelf[p].there /\ spoils < MaxSpoils /\ spoils' = spoils + 1
  /\ shelf' = [shelf EXCEPT ![p] = Gone]
  /\ spoiled' = spoiled \ {p} /\ mixed' = mixed \ {p} /\ Tears(p)
  /\ UNCHANGED <<export, download, archive, import, writes>>

\* The file is gone or unreadable.
Spoils(p) ==
  /\ shelf[p].there /\ p \notin spoiled /\ spoils < MaxSpoils /\ spoils' = spoils + 1
  /\ spoiled' = spoiled \cup {p}
  /\ UNCHANGED <<shelf, export, download, archive, import, torn, mixed, writes>>

\* An upload is promoted and its transaction not committed, or not yet: other
\* bytes under the row's hash and flag.  GetSave compares the hash of what the row
\* calls plaintext and refuses it, and gives out the rest as it is.
PromotesOnly(p) ==
  /\ shelf[p].there /\ writes < MaxWrites /\ writes' = writes + 1
  /\ \E cipher \in BOOLEAN : shelf' = [shelf EXCEPT ![p].bytes = [ver |-> writes', cipher |-> cipher]]
  /\ spoiled' = IF shelf[p].sealed THEN spoiled \ {p} ELSE spoiled \cup {p}
  /\ mixed' = mixed \cup {p} /\ Tears(p)
  /\ UNCHANGED <<export, download, archive, import, spoils>>

---------------------------------------------------------------------------
(* handleExportZip. *)

\* ListSaveSummaries, of one game or of all.
ExportLists ==
  /\ export.at = "idle" /\ download.at = "idle" /\ import.at = "idle" /\ There # {}
  /\ \E chosen \in SUBSET There \ {{}} :
       /\ torn' = mixed \cap chosen
       /\ export' = [NoExport EXCEPT !.at = "reads", !.left = chosen,
                   !.list = [p \in Places |-> IF p \in chosen THEN shelf[p] ELSE Gone]]
  /\ UNCHANGED <<shelf, spoiled, download, archive, import, mixed, writes, spoils>>

\* Mutant: as it was, what cannot be read is skipped.
ExportSkips(p) ==
  /\ export.at = "reads" /\ p \in export.left
  /\ export' = IF shelf[p].there /\ p \notin spoiled
               THEN [export EXCEPT !.left = @ \ {p}, !.entries[p] = [@ EXCEPT !.there = TRUE, !.bytes = shelf[p].bytes,
                       !.hash = export.list[p].hash, !.sealed = export.list[p].sealed]]
               ELSE [export EXCEPT !.left = @ \ {p}]
  /\ UNCHANGED <<shelf, spoiled, download, archive, import, torn, mixed, writes, spoils>>

\* GetSave: the bytes of now under the hash and the flag of the listing, or a
\* name among those omitted.
ExportReads(p) ==
  /\ export.at = "reads" /\ p \in export.left
  /\ export' = IF shelf[p].there /\ p \notin spoiled
               THEN [export EXCEPT !.left = @ \ {p}, !.entries[p] = [export.list[p] EXCEPT !.bytes = shelf[p].bytes]]
               ELSE [export EXCEPT !.left = @ \ {p}, !.omitted = @ \cup {p}]
  /\ UNCHANGED <<shelf, spoiled, download, archive, import, torn, mixed, writes, spoils>>

\* The manifest, the warning, and the end of the file.
ExportEnds ==
  /\ export.at = "reads" /\ export.left = {}
  /\ archive' = [made |-> TRUE, chosen |-> Listed(export), entries |-> export.entries,
                 omitted |-> export.omitted, torn |-> torn]
  /\ export' = NoExport /\ torn' = {}
  /\ UNCHANGED <<shelf, spoiled, download, import, mixed, writes, spoils>>

\* The browser is gone: there is no zip file.
ExportBreaks ==
  /\ export.at = "reads" /\ spoils < MaxSpoils /\ spoils' = spoils + 1
  /\ export' = NoExport /\ torn' = {}
  /\ UNCHANGED <<shelf, spoiled, download, archive, import, mixed, writes>>

---------------------------------------------------------------------------
(* The export command. *)

\* runExportCommand, DownloadAll: the summaries.
DownloadLists ==
  /\ export.at = "idle" /\ download.at = "idle" /\ import.at = "idle" /\ There # {}
  /\ \E chosen \in SUBSET There \ {{}} :
       /\ torn' = mixed \cap chosen
       /\ download' = [NoExport EXCEPT !.at = "reads", !.left = chosen,
                     !.list = [p \in Places |-> IF p \in chosen THEN shelf[p] ELSE Gone]]
  /\ UNCHANGED <<shelf, spoiled, export, archive, import, mixed, writes, spoils>>

\* decodeContent, with the passphrase: what comes of ciphertext that the row
\* calls so, of plaintext as it is, and of the rest nothing.
Decodable(row) == row.sealed => row.bytes.cipher
Decoded(row) == IF row.sealed THEN Plain(row.bytes) ELSE row.bytes

\* The place is pulled, decrypted and compared with the hash of the listing; the
\* manifest gets the hash of what came out.
DownloadReads(p) ==
  LET row == shelf[p] IN
  /\ download.at = "reads" /\ p \in download.left
  /\ row.there /\ p \notin spoiled /\ Decodable(row) /\ Decoded(row) = download.list[p].hash
  /\ download' = [download EXCEPT !.left = @ \ {p},
                  !.entries[p] = [hash |-> Decoded(row), sealed |-> FALSE, bytes |-> Decoded(row), there |-> TRUE]]
  /\ UNCHANGED <<shelf, spoiled, export, archive, import, torn, mixed, writes, spoils>>

\* Whatever else it finds ends the command, and no archive is made.
DownloadFails(p) ==
  LET row == shelf[p] IN
  /\ download.at = "reads" /\ p \in download.left
  /\ ~(row.there /\ p \notin spoiled /\ Decodable(row) /\ Decoded(row) = download.list[p].hash)
  /\ download' = NoExport /\ torn' = {}
  /\ UNCHANGED <<shelf, spoiled, export, archive, import, mixed, writes, spoils>>

DownloadEnds ==
  /\ download.at = "reads" /\ download.left = {}
  /\ archive' = [made |-> TRUE, chosen |-> Listed(download), entries |-> download.entries,
                 omitted |-> {}, torn |-> torn]
  /\ download' = NoExport /\ torn' = {}
  /\ UNCHANGED <<shelf, spoiled, export, import, mixed, writes, spoils>>

---------------------------------------------------------------------------
(* handleImportSaves. *)

ImportBegins ==
  /\ archive.made /\ import.at = "idle" /\ export.at = "idle" /\ download.at = "idle"
  /\ \E p \in Places : archive.entries[p].there
  /\ import' = [at |-> "stores", left |-> {p \in Places : archive.entries[p].there}, failed |-> 0]
  /\ UNCHANGED <<shelf, spoiled, export, download, archive, torn, mixed, writes, spoils>>

\* The hash under which an entry is stored: the manifest's for ciphertext,
\* otherwise that of the bytes.
StoredHash(e) == IF e.sealed THEN e.hash ELSE e.bytes

\* UpsertSaveWithMeta without a precondition: over whatever is there, unless
\* it has that hash.
ImportStores(p) ==
  LET e == archive.entries[p] IN
  /\ import.at = "stores" /\ p \in import.left /\ import' = [import EXCEPT !.left = @ \ {p}]
  /\ IF shelf[p].there /\ shelf[p].hash = StoredHash(e)
     THEN UNCHANGED <<shelf, spoiled, mixed>>
     ELSE /\ shelf' = [shelf EXCEPT ![p] = [e EXCEPT !.hash = StoredHash(e)]]
          /\ spoiled' = spoiled \ {p}
          /\ mixed' = IF p \in archive.torn THEN mixed \cup {p} ELSE mixed \ {p}
  /\ UNCHANGED <<export, download, archive, torn, writes, spoils>>

\* Too large, over the quota, or the transaction failed: counted.
ImportFails(p) ==
  /\ import.at = "stores" /\ p \in import.left /\ spoils < MaxSpoils /\ spoils' = spoils + 1
  /\ import' = [import EXCEPT !.left = @ \ {p}, !.failed = @ + 1]
  /\ UNCHANGED <<shelf, spoiled, export, download, archive, torn, mixed, writes>>

ImportEnds ==
  /\ import.at = "stores" /\ import.left = {}
  /\ import' = [import EXCEPT !.at = "idle", !.failed = 0]
  /\ UNCHANGED <<shelf, spoiled, export, download, archive, torn, mixed, writes, spoils>>

ArchiveNext ==
  \/ \E p \in Places : \/ Uploads(p) \/ PromotesOnly(p) \/ Deletes(p) \/ Spoils(p) \/ ExportReads(p)
                       \/ DownloadReads(p) \/ DownloadFails(p) \/ ImportStores(p) \/ ImportFails(p)
  \/ ExportLists \/ ExportEnds \/ ExportBreaks \/ DownloadLists \/ DownloadEnds
  \/ ImportBegins \/ ImportEnds

ArchiveSpec == ArchiveInit /\ [][ArchiveNext]_archiveVars

---------------------------------------------------------------------------
(* Properties. *)

ArchiveTypeOK ==
  LET exports == [at : {"idle", "reads"}, list : [Places -> ArchiveRows], left : SUBSET Places,
                  entries : [Places -> ArchiveRows], omitted : SUBSET Places]
  IN /\ shelf \in [Places -> ArchiveRows] /\ spoiled \subseteq Places
     /\ export \in exports /\ download \in exports
     /\ archive \in [made : BOOLEAN, chosen : SUBSET Places, entries : [Places -> ArchiveRows], omitted : SUBSET Places,
                     torn : SUBSET Places]
     /\ import \in [at : {"idle", "stores"}, left : SUBSET Places, failed : 0 .. Cardinality(Places)]
     /\ torn \subseteq Places /\ mixed \subseteq Places
     /\ writes \in 0 .. MaxWrites /\ spoils \in 0 .. MaxSpoils

\* The flag says whether the bytes are ciphertext, and the hash is that of the
\* plaintext.
MeansItself(row) == row.sealed = row.bytes.cipher /\ row.hash = Plain(row.bytes)

\* An archive names each save it was asked for, as an entry or as omitted.
ArchiveIsWhole ==
  archive.made => /\ {p \in Places : archive.entries[p].there} \cup archive.omitted = archive.chosen
                  /\ \A p \in archive.omitted : ~archive.entries[p].there

\* Export and import keep a save readable: an entry's flag and hash are those of
\* its bytes, and so are those of every row an import has stored.  Not so where the
\* place was written to between the listing and the reading of a page's export
\* (handlers_export_import.go:53 and :82), nor for an encrypted row whose file an
\* upload that was not committed has replaced (sqlite.go:1073-1080), which GetSave
\* does not compare with its hash (:1235-1240), nor for what an import takes
\* from such entries.
ArchiveKeepsMeaning ==
  /\ ArchiveIsWhole
  /\ \A p \in Places : /\ archive.entries[p].there /\ p \notin archive.torn => MeansItself(archive.entries[p])
                       /\ shelf[p].there /\ p \notin mixed => MeansItself(shelf[p])
=============================================================================
