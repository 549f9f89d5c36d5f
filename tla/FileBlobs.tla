----------------------------- MODULE FileBlobs -----------------------------
(***************************************************************************)
(* The bytes of binary files (internal/services/filetree_blob.go, and      *)
(* import_skills_bulk.go for many files at once).  A row of file_blobs     *)
(* holds the bytes, or names an object in a store that takes no part in    *)
(* the transaction: objects are put before, and deleted inside, the        *)
(* transaction that makes it so, and stay as they are if it is undone.  A  *)
(* transaction holds the row of every entry it has touched.                *)
(*                                                                         *)
(* An entry stands for its id: of two transactions that create one path at *)
(* once each puts its object under an id of its own, and one of them fails.*)
(* A request to the store takes effect before it is given up, or never.    *)
(***************************************************************************)
EXTENDS Naturals

CONSTANTS Entry,      \* ids of entries
          Handler,    \* goroutines that serve requests
          Content     \* bytes a file may have

VARIABLES enabled,    \* the servers are configured with an object store
          blob,       \* the committed row of each entry, or {}
          object,     \* the store: the bytes under each key, or {}
          tx,         \* what each handler's transaction has done so far
          undone      \* history: objects deleted for a change that was undone

vars == <<enabled, blob, object, tx, undone>>

Blob == [at : {"row", "store"}, bytes : Content]
Key == Entry \X Content
NoTx == [rows |-> <<>>, deleted |-> {}]

Init ==
  /\ enabled \in BOOLEAN
  /\ blob = [e \in Entry |-> {}]
  /\ object = [k \in Key |-> {}]
  /\ tx = [h \in Handler |-> NoTx]
  /\ undone = {}
-----------------------------------------------------------------------------
Touched(h) == DOMAIN tx[h].rows

\* lockEntry.  Bound: a transaction writes a file once.
MayTouch(h, e) == \A any \in Handler : e \notin Touched(any)

\* The row as the transaction sees it.
Row(h, e) == IF e \in Touched(h) THEN tx[h].rows[e] ELSE blob[e]

\* Mutant: the key lacks the hash of the bytes.
ObjectKeyOfEntry(e, c) == <<e, CHOOSE any \in Content : TRUE>>

ObjectKey(e, c) == <<e, c>>

\* The request fails after all, or a later statement: an import goes back
\* to the savepoint before the file and goes on, all others roll back.
Undo(h, deleting) ==
  LET gone(keys) == {k \in keys : object'[k] = {}} IN
  /\ \/ tx' = tx /\ undone' = undone \cup gone(deleting)
     \/ /\ tx' = [tx EXCEPT ![h] = NoTx]
        /\ undone' = undone \cup gone(deleting \cup tx[h].deleted)
  /\ UNCHANGED <<enabled, blob>>

Touch(h, e, row, deleted) ==
  /\ tx' = [tx EXCEPT ![h] =
              [rows |-> [x \in Touched(h) \cup {e} |-> IF x = e THEN row ELSE Row(h, x)],
               deleted |-> deleted]]
  /\ UNCHANGED <<enabled, blob>>

\* storeBlob, and the row of upsertBlobTxWithInfo.
StoreBlob(h, e, c) ==
  LET k   == ObjectKey(e, c)
      put == IF enabled THEN [object EXCEPT ![k] = {c}] ELSE object
  IN
  /\ MayTouch(h, e)
  /\ \/ /\ object' = put
        /\ Touch(h, e, {[at |-> IF enabled THEN "store" ELSE "row", bytes |-> c]},
                 IF enabled THEN tx[h].deleted \ {k} ELSE tx[h].deleted)
        /\ undone' = IF enabled THEN undone \ {k} ELSE undone
     \/ object' \in {object, put} /\ Undo(h, {})

\* deleteBlobTx: a text, a directory or a tombstone takes the file's place.
DeleteBlob(h, e) ==
  LET named   == {ObjectKey(e, b.bytes) : b \in {r \in Row(h, e) : enabled /\ r.at = "store"}}
      without == [k \in Key |-> IF k \in named THEN {} ELSE object[k]]
  IN
  /\ MayTouch(h, e)
  /\ \/ /\ object' = without
        /\ Touch(h, e, {}, tx[h].deleted \cup named)
        /\ UNCHANGED undone
     \/ object' \in {object, without} /\ Undo(h, named)

Commit(h) ==
  /\ Touched(h) # {}
  /\ blob' = [e \in Entry |-> Row(h, e)]
  /\ tx' = [tx EXCEPT ![h] = NoTx]
  /\ UNCHANGED <<enabled, object, undone>>

\* The server ends, or the COMMIT fails.
Rollback(h) ==
  /\ Touched(h) # {}
  /\ UNCHANGED object
  /\ Undo(h, {}) /\ tx'[h] = NoTx

\* A server that is restarted with a store keeps the rows it has.
Configure ==
  /\ ~enabled /\ \A h \in Handler : tx[h] = NoTx
  /\ enabled' = TRUE
  /\ UNCHANGED <<blob, object, tx, undone>>

Next ==
  \/ \E h \in Handler :
       \/ \E e \in Entry : DeleteBlob(h, e) \/ \E c \in Content : StoreBlob(h, e, c)
       \/ Commit(h) \/ Rollback(h)
  \/ Configure

Spec == Init /\ [][Next]_vars
-----------------------------------------------------------------------------
TypeOK ==
  /\ enabled \in BOOLEAN
  /\ blob \in [Entry -> SUBSET Blob]
  /\ object \in [Key -> SUBSET Content]
  /\ \A h \in Handler : /\ Touched(h) \subseteq Entry
                        /\ tx[h].deleted \subseteq Key
  /\ undone \subseteq Key

\* ReadBlobByEntryID.
Readable(e, b) == b.at = "row" \/ object[ObjectKey(e, b.bytes)] = {b.bytes}

\* Whatever transactions overlap, fail half-way or skip a file, the bytes a
\* committed row names are there, and are those it was written with - unless
\* they were deleted by a change that is still open, or that was undone.
\* Storing the same bytes again repairs the latter.
BlobsReadable ==
  \A e \in Entry : \A b \in blob[e] :
    \/ Readable(e, b)
    \/ ObjectKey(e, b.bytes) \in undone \cup UNION {tx[h].deleted : h \in Handler}
=============================================================================
