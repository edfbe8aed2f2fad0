----------------------------- MODULE Documents ------------------------------
(***************************************************************************)
(* Documents: bytes in a content-addressed store (internal/blob) and rows  *)
(* that name them by digest, filed against other records by links that no  *)
(* foreign key guards (internal/httpapi/documents.go).  Uploads run side   *)
(* by side; each writes a temporary file, syncs it, renames it into place  *)
(* if the digest is new, and only then writes its row and link.  A power   *)
(* cut takes back what was not synced and every request.  It is assumed    *)
(* that the file system does not lose a rename that the database's own     *)
(* sync came after.                                                        *)
(*                                                                         *)
(* Titles, kinds, types and sizes are left out.  One other table, the      *)
(* records, stands for all that a link can name.                           *)
(***************************************************************************)
EXTENDS Integers, FiniteSets, Tables

CONSTANTS
  Uploaders,    \* requests under way at a time
  Digests,      \* contents, by what they hash to
  PropertyIds, DocumentIds, RecordIds,  \* bounds: rowids in use
  MaxCuts       \* bound: power cuts

DocumentAssumption ==
  /\ PropertyIds \subseteq Nat \ {0} /\ DocumentIds \subseteq Nat /\ RecordIds \subseteq Nat \ {0}
  /\ MaxCuts \in Nat

Null == 0
Document == [sha : Digests, property : PropertyIds \cup {Null}]
Form     == [sha : Digests, property : PropertyIds \cup {Null}, link : RecordIds \cup {Null}]
NoForm   == [sha |-> "none"]

VARIABLES
  properties, records,   \* the ids on file
  documents,
  links,       \* document_links: pairs of document and record
  blobs,       \* digests with a file in the tree
  soft,        \* those whose bytes may not have reached the disk
  at,          \* where each upload is
  form,        \* what it carries
  synced,      \* uploads whose temporary file is on the disk
  linking,     \* the document handleLinkDocument has read
  cuts

rows    == <<properties, records, documents, links>>
disk    == <<blobs, soft>>
uploads == <<at, form, synced>>
vars    == <<rows, disk, uploads, linking, cuts>>

TypeOK ==
  /\ properties \subseteq PropertyIds /\ records \subseteq RecordIds
  /\ DOMAIN documents \subseteq DocumentIds
  /\ \A d \in DOMAIN documents : documents[d] \in Document
  /\ links \subseteq DocumentIds \X RecordIds
  /\ soft \subseteq blobs /\ blobs \subseteq Digests
  /\ at \in [Uploaders -> {"nothing", "copied", "stored", "checked"}]
  /\ \A u \in Uploaders : form[u] \in IF at[u] = "nothing" THEN {NoForm} ELSE Form
  /\ synced \subseteq Uploaders
  /\ linking \in DocumentIds \cup {Null}
  /\ cuts \in 0 .. MaxCuts

Init ==
  /\ properties = {} /\ records = {} /\ links = {} /\ documents = NoRows
  /\ blobs = {} /\ soft = {}
  /\ at = [u \in Uploaders |-> "nothing"] /\ form = [u \in Uploaders |-> NoForm] /\ synced = {}
  /\ linking = Null /\ cuts = 0

-----------------------------------------------------------------------------
(* Put, in the steps a power cut tells apart.                              *)

Over(u) ==
  /\ at' = [at EXCEPT ![u] = "nothing"]
  /\ form' = [form EXCEPT ![u] = NoForm]
  /\ synced' = synced \ {u}

\* The body is copied to a temporary file while it is hashed.
Copy(u, f) ==
  /\ at[u] = "nothing"
  /\ at' = [at EXCEPT ![u] = "copied"]
  /\ form' = [form EXCEPT ![u] = f]
  /\ UNCHANGED <<rows, disk, synced, linking, cuts>>

Sync(u) ==
  /\ at[u] = "copied" /\ u \notin synced
  /\ synced' = synced \cup {u}
  /\ UNCHANGED <<rows, disk, at, form, linking, cuts>>

RenameUnsynced(u) ==                 \* mutant: the bytes may still be in memory
  /\ at[u] = "copied"
  /\ at' = [at EXCEPT ![u] = "stored"]
  /\ blobs' = blobs \cup {form[u].sha}
  /\ soft' = IF u \in synced \/ form[u].sha \in blobs THEN soft ELSE soft \cup {form[u].sha}
  /\ UNCHANGED <<rows, form, synced, linking, cuts>>

\* A digest that is there keeps the file it has.
Rename(u) ==
  /\ at[u] = "copied" /\ u \in synced
  /\ at' = [at EXCEPT ![u] = "stored"]
  /\ blobs' = blobs \cup {form[u].sha}
  /\ UNCHANGED <<rows, soft, form, synced, linking, cuts>>

\* The reader failed, the caller went away or the form was refused.
Abandon(u) ==
  /\ at[u] # "nothing"
  /\ Over(u)
  /\ UNCHANGED <<rows, disk, linking, cuts>>

\* Every request is gone, and so are the bytes that were not synced.
PowerCut ==
  /\ cuts < MaxCuts
  /\ cuts' = cuts + 1
  /\ blobs' = blobs \ soft /\ soft' = {}
  /\ at' = [u \in Uploaders |-> "nothing"] /\ form' = [u \in Uploaders |-> NoForm]
  /\ synced' = {} /\ linking' = Null
  /\ UNCHANGED rows

-----------------------------------------------------------------------------
(* The queries.                                                            *)

GetDocumentBySHA(sha) == {d \in DOMAIN documents : documents[d].sha = sha}

\* sha256 is UNIQUE and the property a foreign key.
CreateDocument(row) ==
  /\ GetDocumentBySHA(row.sha) = {}
  /\ row.property \in properties \cup {Null}
  /\ NextId(documents) \in DocumentIds
  /\ documents' = With(documents, NextId(documents), row)

\* A link that is there already is as good as one that is made.
CreateDocumentLink(d, r) == links' = IF r = Null THEN links ELSE links \cup {<<d, r>>}

\* ON DELETE CASCADE to its links.
DeleteDocument(d) ==
  /\ documents' = Without(documents, {d})
  /\ links' = {x \in links : x[1] # d}

\* ON DELETE SET NULL.
DeleteProperty(p) ==
  /\ properties' = properties \ {p}
  /\ documents' = [d \in DOMAIN documents |->
                     [documents[d] EXCEPT !.property = IF @ = p THEN Null ELSE @]]

-----------------------------------------------------------------------------
(* The handlers.                                                           *)

handleCreateProperty ==
  LET p == NextId([i \in properties |-> i])
  IN  /\ p \in PropertyIds
      /\ properties' = properties \cup {p}
      /\ UNCHANGED <<records, documents, links, disk, uploads, linking, cuts>>

handleDeleteProperty(p) ==
  /\ p \in properties
  /\ DeleteProperty(p)
  /\ UNCHANGED <<records, links, disk, uploads, linking, cuts>>

\* A record a link may name comes and goes; its links stay where they are.
RecordMade ==
  LET r == NextId([i \in records |-> i])
  IN  /\ r \in RecordIds
      /\ records' = records \cup {r}
      /\ UNCHANGED <<properties, documents, links, disk, uploads, linking, cuts>>

RecordDeleted(r) ==
  /\ r \in records
  /\ records' = records \ {r}
  /\ UNCHANGED <<properties, documents, links, disk, uploads, linking, cuts>>

\* handleUploadDocument reads the property the form names on the read pool...
UploadChecked(u) ==
  /\ at[u] = "stored"
  /\ form[u].property \in properties \cup {Null}
  /\ at' = [at EXCEPT ![u] = "checked"]
  /\ UNCHANGED <<rows, disk, form, synced, linking, cuts>>

\* ...and files the document in one transaction: the row that has the digest,
\* or a new one, and the link.  A foreign key that fails undoes both.
handleUploadDocument(u) ==
  LET f == form[u]
      found == GetDocumentBySHA(f.sha)
  IN  /\ at[u] = "checked"
      /\ \/ \E d \in found : CreateDocumentLink(d, f.link) /\ UNCHANGED documents
         \/ /\ found = {}
            /\ CreateDocument([sha |-> f.sha, property |-> f.property])
            /\ CreateDocumentLink(NextId(documents), f.link)
         \/ /\ found = {} /\ f.property \notin properties \cup {Null}
            /\ UNCHANGED <<documents, links>>
      /\ Over(u)
      /\ UNCHANGED <<properties, records, disk, linking, cuts>>

handleUpdateDocument(d, p) ==
  /\ d \in DOMAIN documents
  /\ p \in properties \cup {Null}
  /\ documents' = [documents EXCEPT ![d].property = p]
  /\ UNCHANGED <<properties, records, links, disk, uploads, linking, cuts>>

\* The bytes stay.
handleDeleteDocument(d) ==
  /\ d \in DOMAIN documents
  /\ DeleteDocument(d)
  /\ UNCHANGED <<properties, records, disk, uploads, linking, cuts>>

\* The document is read on the read pool; then the link is written.
handleLinkDocument(d) ==
  /\ linking = Null
  /\ d \in DOMAIN documents
  /\ linking' = d
  /\ UNCHANGED <<rows, disk, uploads, cuts>>

DocumentLinked(r) ==
  /\ linking # Null
  /\ linking' = Null
  /\ IF linking \in DOMAIN documents THEN CreateDocumentLink(linking, r) ELSE UNCHANGED links
  /\ UNCHANGED <<properties, records, documents, disk, uploads, cuts>>

handleUnlinkDocument(d, r) ==
  /\ <<d, r>> \in links
  /\ links' = links \ {<<d, r>>}
  /\ UNCHANGED <<properties, records, documents, disk, uploads, linking, cuts>>

Next ==
  \/ \E u \in Uploaders :
       \/ \E f \in Form : Copy(u, f)
       \/ Sync(u) \/ Rename(u) \/ Abandon(u) \/ UploadChecked(u) \/ handleUploadDocument(u)
  \/ PowerCut
  \/ handleCreateProperty \/ RecordMade
  \/ \E p \in PropertyIds : handleDeleteProperty(p)
  \/ \E r \in RecordIds : RecordDeleted(r) \/ DocumentLinked(r)
  \/ \E d \in DocumentIds :
       \/ handleDeleteDocument(d) \/ handleLinkDocument(d)
       \/ \E p \in PropertyIds \cup {Null} : handleUpdateDocument(d, p)
       \/ \E r \in RecordIds : handleUnlinkDocument(d, r)

Spec == Init /\ [][Next]_vars

-----------------------------------------------------------------------------
\* Every row names bytes that are in the store whole, whatever was uploaded
\* beside it and wherever the power went; one content has one row; and a row
\* or a link belongs to nothing that is gone.
NothingMissing ==
  /\ TypeOK
  /\ \A d \in DOMAIN documents : documents[d].sha \in blobs \ soft
  /\ \A d, e \in DOMAIN documents : documents[d].sha = documents[e].sha => d = e
  /\ \A d \in DOMAIN documents : documents[d].property \in properties \cup {Null}
  /\ \A x \in links : x[1] \in DOMAIN documents

\* documents.go: entity_id has to name a record.
LinksNameRecords == \A x \in links : x[2] \in records
=============================================================================
