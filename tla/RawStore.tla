------------------------------ MODULE RawStore ------------------------------
(* hub/rawstore.py: the raw archive.  A blob is what a source returned and  *)
(* when.  The archive maps a content address to what the disk holds under   *)
(* it: the blob, and whether its .meta.json is there beside the bytes.      *)
EXTENDS Integers

CONSTANT None

EmptyArchive == [digest \in {} |-> None]

RawBlob(type, request, body, at) ==
    [content_type |-> type, request |-> request, body |-> body, fetched_at |-> at]

(* Mutant of Sha256: a blob is filed under what was asked for. *)
Sha256OfRequest(blob) == <<blob.content_type, blob.request>>

(* A hash tells bodies apart; no two sources send the same one. *)
Sha256(blob) == <<blob.content_type, blob.body>>

Has(archive, digest) == digest \in DOMAIN archive

(* The first half of put: the bytes, by a rename. *)
PutBody(archive, blob) ==
    [digest \in DOMAIN archive \cup {Sha256(blob)} |->
        IF digest = Sha256(blob)
        THEN [blob |-> RawBlob(blob.content_type, None, blob.body, 0), meta |-> FALSE]
        ELSE archive[digest]]

(* Its second half: the .meta.json, by another. *)
PutMeta(archive, blob) == [archive EXCEPT ![Sha256(blob)] = [blob |-> blob, meta |-> TRUE]]

(* get: without a .meta.json the blob was fetched at 0, by no request.  The *)
(* content type stays: it stands for the source, which picks the parser.    *)
Get(archive, digest) == archive[digest].blob
=============================================================================
