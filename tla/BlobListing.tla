----------------------------- MODULE BlobListing -----------------------------
(***************************************************************************)
(* ListBlobs of the two blob storage clients, racing writers that put and  *)
(* delete blobs in the same bucket:                                        *)
(*                                                                         *)
(*  - S3BlobStorageClient::ListBlobs (src/unnamed/part_003) loops over     *)
(*    ListObjectsV2 pages, passing the continuation token of each          *)
(*    truncated page to the next request, and fails on a failed page;      *)
(*  - GcpBlobStorageClient::ListBlobs (blob_storage_client_gcp.cc)         *)
(*    iterates the ListObjects range, which fetches pages lazily, starting *)
(*    at StartOffset(start_after) inclusive; it drops an entry equal to    *)
(*    start_after, skips error entries, and sorts the keys.                *)
(*                                                                         *)
(* Blob names are the integers of Names, ordered as the stores order keys; *)
(* PrefixNames are the names carrying the listing's prefix; start_after 0  *)
(* is the empty string.  The stores' listing semantics are modelled as     *)
(* their SDKs document them: a page holds the next PageSize matching names *)
(* in order, and the GCP range ends after yielding an error.               *)
(***************************************************************************)
EXTENDS Integers, Sequences, SequencesExt, FiniteSets

CONSTANTS
    Names,          \* blob names, as a finite set of positive integers
    PrefixNames,    \* the names that match options.prefix
    PageSize,       \* objects per listing page
    MaxChanges      \* PutBlob / DeleteBlob calls by the writers

ASSUME Names \subseteq Nat \ {0} /\ PrefixNames \subseteq Names
ASSUME PageSize \in Nat \ {0} /\ MaxChanges \in Nat

Clients == {"s3", "gcp"}

\* A listing returns each prefix name at most once (ListingSound), so its
\* keys never outnumber PrefixNames; the page steps are guarded by this
\* bound so that a listing which re-lists keys stays a finite model.
MaxListed == Cardinality(PrefixNames)

VARIABLES
    bucket,     \* names of the objects in the bucket
    changes,    \* writer calls made
    lister,     \* the ListBlobs call: [pc, client, start_after, after, keys, status]
    stable,     \* history: names present in every state since the listing began
    seen        \* history: names present in some state since the listing began

vars == << bucket, changes, lister, stable, seen >>

\* The matching objects after a position, in the store's order.
Matching(b, after) == {n \in b \cap PrefixNames : n > after}

\* One listing page: the first PageSize matching names after the position.
Page(b, after) ==
    LET m == Matching(b, after)
    IN  SetToSortSeq({n \in m : Cardinality({x \in m : x < n}) < PageSize}, <)

Init ==
    /\ bucket \in SUBSET Names
    /\ changes = 0
    /\ lister \in [pc : {"idle"}, client : Clients, start_after : {0} \cup Names,
                   after : {0}, keys : {<< >>}, status : {"none"}]
    /\ stable = {}
    /\ seen = {}

\* The histories follow the bucket while a listing runs.
Track(b) ==
    IF lister.pc = "listing"
    THEN stable' = stable \cap b /\ seen' = seen \cup b
    ELSE UNCHANGED << stable, seen >>

-----------------------------------------------------------------------------
(* Writers.                                                                *)

\* The writers use the client of the listed store.  S3 PutBlob: the object
\* exists once the TransferManager upload completed; a failed upload
\* leaves the bucket as it was.
S3PutBlob(n) ==
    /\ lister.client = "s3" /\ changes < MaxChanges
    /\ changes' = changes + 1
    /\ \/ bucket' = bucket \cup {n}
       \/ UNCHANGED bucket
    /\ Track(bucket')
    /\ UNCHANGED lister

\* S3 DeleteBlob: DeleteObject succeeds or fails.
S3DeleteBlob(n) ==
    /\ lister.client = "s3" /\ changes < MaxChanges
    /\ changes' = changes + 1
    /\ \/ bucket' = bucket \ {n}
       \/ UNCHANGED bucket
    /\ Track(bucket')
    /\ UNCHANGED lister

\* GCP PutBlob: WriteObject may fail to open (nothing written); else the
\* reader's bytes are streamed and Close() finalises the object.  A Close
\* that reports an error may or may not have finalised it.
GcpPutBlob(n) ==
    /\ lister.client = "gcp" /\ changes < MaxChanges
    /\ changes' = changes + 1
    /\ \/ bucket' = bucket \cup {n}
       \/ UNCHANGED bucket
    /\ Track(bucket')
    /\ UNCHANGED lister

\* GCP DeleteBlob: DeleteObject's status is returned.
GcpDeleteBlob(n) ==
    /\ lister.client = "gcp" /\ changes < MaxChanges
    /\ changes' = changes + 1
    /\ \/ bucket' = bucket \ {n}
       \/ UNCHANGED bucket
    /\ Track(bucket')
    /\ UNCHANGED lister

-----------------------------------------------------------------------------
(* ListBlobs.                                                              *)

\* The request is built: S3 sets StartAfter only if non-empty, which lists
\* the same names as an empty one; GCP's StartOffset is inclusive.
StartListing ==
    /\ lister.pc = "idle"
    /\ lister' = [lister EXCEPT !.pc = "listing",
                    !.after = IF lister.client = "s3" THEN lister.start_after
                              ELSE lister.start_after - 1]
    /\ stable' = bucket
    /\ seen' = bucket
    /\ UNCHANGED << bucket, changes >>

\* The keys S3 ListBlobs appends for one page's objects.
S3PageKeysDropLast(objects) == SubSeq(objects, 1, Len(objects) - 1)

\* for (object : objects) keys.push_back(object.GetKey())
S3PageKeys(objects) == objects

\* A truncated page whose continuation token is not moved past its keys.
S3ListPageNoAdvance ==
    /\ lister.pc = "listing" /\ lister.client = "s3" /\ Len(lister.keys) <= MaxListed
    /\ \/ lister' = [lister EXCEPT !.pc = "done", !.status = "error"]
       \/ LET objects   == Page(bucket, lister.after)
              truncated == Cardinality(Matching(bucket, lister.after)) > PageSize
          IN  lister' = [lister EXCEPT
                  !.keys   = @ \o S3PageKeys(objects),
                  !.pc     = IF truncated THEN "listing" ELSE "done",
                  !.status = IF truncated THEN @ ELSE "ok"]
    /\ Track(bucket)
    /\ UNCHANGED << bucket, changes >>

\* One iteration of the S3 while loop: a failed ListObjectsV2 returns its
\* error; else the page's keys are appended, and a truncated page continues
\* after its last key (NextContinuationToken).
S3ListPage ==
    /\ lister.pc = "listing" /\ lister.client = "s3" /\ Len(lister.keys) <= MaxListed
    /\ \/ lister' = [lister EXCEPT !.pc = "done", !.status = "error"]
       \/ LET objects   == Page(bucket, lister.after)
              truncated == Cardinality(Matching(bucket, lister.after)) > PageSize
          IN  lister' = [lister EXCEPT
                  !.keys   = @ \o S3PageKeys(objects),
                  !.after  = IF truncated THEN Last(objects) ELSE @,
                  !.pc     = IF truncated THEN "listing" ELSE "done",
                  !.status = IF truncated THEN @ ELSE "ok"]
    /\ Track(bucket)
    /\ UNCHANGED << bucket, changes >>

\* Every entry except start_after itself, which the inclusive StartOffset
\* returns.
GcpEntriesKeepStart(page, start_after) == page

\* if (object_metadata->name() == options.start_after) continue;
GcpEntries(page, start_after) == SelectSeq(page, LAMBDA n : n # start_after)

\* The range fetches one page: a failed fetch yields an error entry, which
\* the loop logs and skips, and the range then ends, so ListBlobs returns the
\* keys so far, sorted, as OK.  The emptiness check on begin() leads to the
\* same empty result as the loop.
GcpListPage ==
    /\ lister.pc = "listing" /\ lister.client = "gcp" /\ Len(lister.keys) <= MaxListed
    /\ \/ lister' = [lister EXCEPT !.pc = "done", !.status = "ok",
                                   !.keys = SortSeq(@, <)]
       \/ LET page == Page(bucket, lister.after)
              more == Cardinality(Matching(bucket, lister.after)) > PageSize
              keys == lister.keys \o GcpEntries(page, lister.start_after)
          IN  lister' = [lister EXCEPT
                  !.keys   = IF more THEN keys ELSE SortSeq(keys, <),
                  !.after  = IF more THEN Last(page) ELSE @,
                  !.pc     = IF more THEN "listing" ELSE "done",
                  !.status = IF more THEN @ ELSE "ok"]
    /\ Track(bucket)
    /\ UNCHANGED << bucket, changes >>

Terminated ==
    /\ lister.pc = "done" /\ changes = MaxChanges
    /\ UNCHANGED vars

Next ==
    \/ \E n \in Names : \/ S3PutBlob(n) \/ S3DeleteBlob(n)
                        \/ GcpPutBlob(n) \/ GcpDeleteBlob(n)
    \/ StartListing \/ S3ListPage \/ GcpListPage
    \/ Terminated

\* ListBlobs runs on its caller's thread and each SDK call returns (with a
\* result or an error), so a running listing keeps fetching pages.  The
\* writers are not required to write.
Spec == Init /\ [][Next]_vars /\ WF_vars(S3ListPage) /\ WF_vars(GcpListPage)

-----------------------------------------------------------------------------

Listed == Range(lister.keys)

\* An OK listing holds, in strictly increasing order and without
\* duplicates, only names that carry the prefix, come after start_after,
\* and were in the bucket while it ran: the paging of both clients and the
\* GCP client's exclusion of the inclusive StartOffset.
ListingSound ==
    (lister.pc = "done" /\ lister.status = "ok") =>
        /\ \A i \in 1..Len(lister.keys) - 1 : lister.keys[i] < lister.keys[i + 1]
        /\ Listed \subseteq Matching(seen, lister.start_after)

\* An OK listing misses no object that was in the bucket throughout the
\* listing, except ones after every listed key: a poller that lists again
\* from the last key it saw never loses a blob, even when a GCP page fetch
\* fails and the listing is cut short.
StableKeysNotSkipped ==
    (lister.pc = "done" /\ lister.status = "ok") =>
        \A n \in Matching(stable, lister.start_after) :
            n \in Listed \/ \A k \in Listed : k < n

\* Every ListBlobs call returns, although writers keep adding and removing
\* names around the cursor: each S3 page's continuation token and each GCP
\* page fetch move the listing strictly past the keys it has returned.
ListingReturns == lister.pc = "listing" ~> lister.pc = "done"

=============================================================================
